---- MODULE Spec2Model ----
(***************************************************************************)
(* State-machine model of the browser-agent SDK: the snapshot cache        *)
(* (CachedSnapshot), the retry driver (EventuallyWrapper.evaluate), the    *)
(* step lifecycle of the debugger sidecar (SentienceDebugger), the polling *)
(* loops of the backends, the predicates of the verification module, the   *)
(* captcha gating and scrollBy of the AgentRuntime, PredicateBrowserAgent, *)
(* the compact formatter of SentienceContext, the TokenUsageCollector,     *)
(* BrowserUseAdapter.createBackend and the ElementQuery of the assertion   *)
(* DSL.                                                                    *)
(*                                                                         *)
(* Each component has its own specification (SpecCache, SpecEventually,    *)
(* SpecDebugger, ...); the variables of the other components stay at their *)
(* initial values.                                                         *)
(***************************************************************************)
EXTENDS Integers, Sequences, FiniteSets, TLC

VARIABLES
    \* ---- CachedSnapshot ----
    now,          \* Date.now() as seen by the cache
    maxAgeMs,     \* CachedSnapshot.maxAgeMs (constructor argument)
    cached,       \* CachedSnapshot.cached (NullSnap = null)
    cachedAt,     \* CachedSnapshot.cachedAt
    cachedUrl,    \* CachedSnapshot.cachedUrl ("null" = null)
    inflight,     \* get() calls suspended in `await snapshot(backend, ...)`, by task
    captures,     \* number of page captures the backend has taken so far
    invCaps,      \* value of `captures` when invalidate() last ran (-1: never)
    invalidatedLast, \* invalidate() has run and get() was not called since
    lastGet       \* observation of the get() step just taken (NoGet otherwise)

VARIABLES
    \* ---- EventuallyWrapper.evaluate ----
    config,       \* this._config: [timeout, poll, maxRetries]
    pc,           \* where evaluate() is: "top", "refresh", "sleep", "done", "thrown"
    clock,        \* Date.now() - startTime
    attempts,     \* local `attempts`
    lastOutcome,  \* local `lastOutcome` (NullOutcome = null)
    ctx,          \* parameter/local `ctx`
    refreshes,    \* number of snapshotFn() calls made so far
    result,       \* outcome returned by evaluate() (NullOutcome until it returns)
    raised,       \* error that escaped evaluate() ("none" until it does)
    log           \* attempts made so far, in order

cacheVars == <<now, maxAgeMs, cached, cachedAt, cachedUrl, inflight,
               captures, invCaps, invalidatedLast, lastGet>>

evVars == <<config, pc, clock, attempts, lastOutcome, ctx, refreshes, result,
            raised, log>>

VARIABLES
    \* ---- SentienceDebugger and its AgentRuntime ----
    autoStep,          \* SentienceDebugger.autoStep (constructor option)
    stepOpen,          \* SentienceDebugger.stepOpen
    autoOpenedStep,    \* SentienceDebugger.autoOpenedStep
    autoOpenedStepId,  \* SentienceDebugger.autoOpenedStepId (NoStepId = null)
    runtime,           \* the AgentRuntime: open steps, stepId, trace events
    handles,           \* the assertion handles returned by check(), by variable
    stepTask,          \* where dbg.step(goal, fn) is: "idle", "inFn"
    lastCall           \* observation of the operation step just taken

dbgVars == <<autoStep, stepOpen, autoOpenedStep, autoOpenedStepId, runtime,
             handles, stepTask, lastCall>>

VARIABLES
    \* ---- the polling loops ----
    waitKind,          \* which loop runs
    waitTimeoutMs,     \* parameter timeoutMs
    waitPc,            \* where the loop is: "top", "eval", "diag", "sleep", "done"
    waitClock,         \* Date.now() - startTime
    waitElapsedMs,     \* local `elapsedMs` of _waitForExtension
    waitPolls,         \* readiness tests sent to the backend so far
    waitOutcome,       \* how the loop ended ("pending" until it does)
    abortSignal,       \* the caller's abort signal has been raised
    polledAfterAbort,  \* a readiness test was sent after the signal was raised
    waitState,         \* parameter `state` of waitReadyState
    lastProbe,         \* what the last readiness test gave ("none" before)
    probeErrors,       \* errors of readiness tests caught by the loop
    diagnostics,       \* diagnostics of ExtensionNotLoadedError ("none" before)
    extensionSnapshot  \* window.sentience.snapshot(options): "notCalled", "called"

probeVars == <<waitState, lastProbe, probeErrors, diagnostics, extensionSnapshot>>

waitVars == <<waitKind, waitTimeoutMs, waitPc, waitClock, waitElapsedMs,
              waitPolls, waitOutcome, abortSignal, polledAfterAbort, probeVars>>

VARIABLES
    \* ---- predicates of the verification module ----
    rx,             \* the RegExp held by a predicate of urlMatches(pattern)
    matchLog,       \* the evaluations of that predicate: context URL, outcome
    subPredicates,  \* the arguments of allOf / anyOf, as they behave on ctx
    combined        \* what the last allOf / anyOf evaluation did

verifyVars == <<rx, matchLog, subPredicates, combined>>

VARIABLES
    \* ---- captcha gating of the AgentRuntime ----
    captcha,         \* snapshot.diagnostics.captcha (NoCaptcha = undefined)
    captchaOptions,  \* the runtime's CaptchaOptions: [minConfidence, policy]
    gate             \* what gating did with the snapshot (NotGated before)

captchaVars == <<captcha, captchaOptions, gate>>

VARIABLES
    \* ---- AgentRuntime.scrollBy with verify ----
    scrollOpts,      \* [minDeltaPx, timeoutMs, jsFallback]
    scrollPc,        \* "start", "top", "read", "sleep", "fallback", "reverify", "done"
    scrollTop,       \* the page's scroll position (window.scrollY)
    scrollBefore,    \* the position read before the wheel event
    wheelEffect,     \* by how much the page answers the wheel event (0: absorbed)
    wheelPending,    \* the page has not yet moved in answer to the wheel event
    scrollClock,     \* time since the wheel event was dispatched
    scrollObserved,  \* positions read after the wheel event: [after, phase]
    scrollResult,    \* what scrollBy returned ("pending" until it returns)
    scrollEvents     \* verification events emitted by scrollBy

scrollVars == <<scrollOpts, scrollPc, scrollTop, scrollBefore, wheelEffect,
                wheelPending, scrollClock, scrollObserved, scrollResult,
                scrollEvents>>

VARIABLES
    \* ---- PredicateBrowserAgent ----
    agentConfig,      \* config.vision: [enabled, maxVisionCalls]
    runOpts,          \* argument of run(): [steps, stopOnFailure]
    visionCallsUsed,  \* PredicateBrowserAgent.visionCallsUsed
    agentPc,          \* where run() is: "idle", "inStep", "done"
    currentStep,      \* the step handed to runner.runStep: [index, visionExecutorEnabled]
    agentStarted,     \* indexes of the steps handed to runner.runStep, in order
    agentLog,         \* the steps that runner.runStep has finished, in order
    runResult,        \* "true" / "false" returned by run() ("pending", "thrown")
    history           \* PredicateBrowserAgent.history: [index, ok] per entry

agentVars == <<agentConfig, runOpts, visionCallsUsed, agentPc, currentStep,
               agentStarted, agentLog, runResult, history>>

VARIABLES
    \* ---- SentienceContext._formatSnapshotForLLM ----
    snap,        \* the Snapshot: [elements, dominant_group_key]
    selector,    \* this._selector: [byImportance, fromDominantGroup, byPosition]
    formatted    \* the lines produced, in order (NotFormatted before the call)

fmtVars == <<snap, selector, formatted>>

VARIABLES
    \* ---- TokenUsageCollector ----
    byRole,        \* TokenUsageCollector.byRole: role -> totals
    byModel,       \* TokenUsageCollector.byModel: model -> totals
    usageOp,       \* the last operation: [op, role, resp] (op "none" before any)
    usageBefore,   \* [byRole, byModel] as they were before the last operation
    usageCalls     \* number of record() calls made

tokenVars == <<byRole, byModel, usageOp, usageBefore, usageCalls>>

VARIABLES
    \* ---- BrowserUseAdapter ----
    sessionHasApi,    \* the session has a getOrCreateCdpSession function
    adapterBackend,   \* BrowserUseAdapter.backend (NoBackend = null)
    adapterTransport, \* BrowserUseAdapter.transport (NoBackend = null)
    backendCalls,     \* per createBackend() call: [pc, backend]
    sessionCalls,     \* number of getOrCreateCdpSession() invocations
    backendsMade      \* number of CDPBackend instances constructed

adapterVars == <<sessionHasApi, adapterBackend, adapterTransport, backendCalls,
                 sessionCalls, backendsMade>>

VARIABLES
    \* ---- ElementQuery ----
    querySnapshot,  \* the snapshot queried: [elements, dominant_group_key]
    elementQuery,   \* the ElementQuery: the filters set by E() or nth()
    foundIds           \* what findAll(snapshot) returned (NotQueried before)

queryVars == <<querySnapshot, elementQuery, foundIds>>

vars == <<cacheVars, evVars, dbgVars, waitVars, verifyVars, captchaVars,
        scrollVars, agentVars, fmtVars, tokenVars, adapterVars, queryVars>>

\* The variables of the other components, as seen from each component.
notCache == <<evVars, dbgVars, waitVars, verifyVars, captchaVars,
        scrollVars, agentVars, fmtVars, tokenVars, adapterVars, queryVars>>
notEventually == <<cacheVars, dbgVars, waitVars, verifyVars, captchaVars,
        scrollVars, agentVars, fmtVars, tokenVars, adapterVars, queryVars>>
notDebugger == <<cacheVars, evVars, waitVars, verifyVars, captchaVars,
        scrollVars, agentVars, fmtVars, tokenVars, adapterVars, queryVars>>
notWait == <<cacheVars, evVars, dbgVars, verifyVars, captchaVars,
        scrollVars, agentVars, fmtVars, tokenVars, adapterVars, queryVars>>
notVerify == <<cacheVars, evVars, dbgVars, waitVars, captchaVars,
        scrollVars, agentVars, fmtVars, tokenVars, adapterVars, queryVars>>
notCaptcha == <<cacheVars, evVars, dbgVars, waitVars, verifyVars,
        scrollVars, agentVars, fmtVars, tokenVars, adapterVars, queryVars>>
notScroll == <<cacheVars, evVars, dbgVars, waitVars, verifyVars,
        captchaVars, agentVars, fmtVars, tokenVars, adapterVars, queryVars>>
notAgent == <<cacheVars, evVars, dbgVars, waitVars, verifyVars,
        captchaVars, scrollVars, fmtVars, tokenVars, adapterVars,
        queryVars>>
notFormatter == <<cacheVars, evVars, dbgVars, waitVars, verifyVars,
        captchaVars, scrollVars, agentVars, tokenVars, adapterVars,
        queryVars>>
notTokens == <<cacheVars, evVars, dbgVars, waitVars, verifyVars,
        captchaVars, scrollVars, agentVars, fmtVars, adapterVars,
        queryVars>>
notAdapter == <<cacheVars, evVars, dbgVars, waitVars, verifyVars,
        captchaVars, scrollVars, agentVars, fmtVars, tokenVars, queryVars>>
notQuery == <<cacheVars, evVars, dbgVars, waitVars, verifyVars,
        captchaVars, scrollVars, agentVars, fmtVars, tokenVars,
        adapterVars>>

(***************************************************************************)
(* Bounds of the model.                                                    *)
(***************************************************************************)
MaxNow == 3          \* the cache clock runs from 1 to MaxNow
MaxAgeBound == 1     \* maxAgeMs ranges over 0..MaxAgeBound
MaxCaptures == 2     \* page captures taken by the backend

MaxTimeout == 4      \* config.timeout ranges over 0..MaxTimeout
MaxPoll == 2         \* config.poll ranges over 0..MaxPoll
MaxRetriesBound == 4 \* config.maxRetries ranges over 0..MaxRetriesBound
MaxSteps == 3        \* steps begun on the runtime
MaxEvents == 6       \* trace events emitted
MaxAttempts == 2     \* attempts of one handle.eventually()
MaxWaitTimeout == 5  \* timeoutMs of a polling loop ranges over 0..MaxWaitTimeout
MaxEvalDuration == 2 \* a backend.eval() takes 0..MaxEvalDuration
MaxSleepJitter == 1  \* a sleep overruns by 0..MaxSleepJitter
MaxUrlLen == 2       \* characters of a context URL
MaxPatternLen == 1   \* characters of a pattern
MaxEvals == 3        \* evaluations of one predicate
MaxSubPredicates == 3 \* arguments of allOf / anyOf
MaxConfidence == 3   \* confidence and minConfidence range over 0..MaxConfidence
MaxScrollTop == 2    \* the scroll position ranges over 0..MaxScrollTop
MaxMinDelta == 2     \* minDeltaPx ranges over 1..MaxMinDelta
MaxScrollTimeout == 2 \* timeoutMs of scrollBy ranges over 1..MaxScrollTimeout
MaxAgentSteps == 3   \* steps of one run()
MaxVisionCalls == 2  \* config.vision.maxVisionCalls ranges over 0..MaxVisionCalls
MaxVisionAttempts == 1 \* vision-executor calls of one runStep
MaxHistoryLastN == 2 \* config.historyLastN ranges over -1..MaxHistoryLastN
MaxElements == 3     \* elements of a snapshot
MaxSelect == 2       \* byImportance, fromDominantGroup, byPosition range over 0..MaxSelect
MaxImportance == 1   \* importance ranges over 0..MaxImportance
MaxDocY == 1         \* doc_y, bbox.y and bbox.x range over 0..MaxDocY
MaxGroupIndex == 1   \* group_index ranges over 0..MaxGroupIndex
MaxTextLen == 2      \* free characters at the start of an element's text
MaxHrefLen == 3      \* characters of an href after its scheme
MaxTokens == 1       \* token counts of a response range over -1..MaxTokens
MaxRecords == 2      \* record() calls on one collector
MaxBackendCalls == 4 \* createBackend() calls on one adapter
MaxQueryElements == 2 \* elements of a queried snapshot

Tasks == {"t1", "t2"}               \* async tasks that call get()
SnapshotUrl == "https://page"       \* Snapshot.url of a captured page
CallOptions == {"none", "optA"}     \* "none": get() without options
DefaultOptions == "default"         \* CachedSnapshot.defaultOptions

(***************************************************************************)
(*                            CachedSnapshot                               *)
(***************************************************************************)
NullSnap == [id |-> 0, url |-> "null", opts |-> "null"]

\* A task that is not inside get().
Idle == [phase |-> "idle", opts |-> "null", snap |-> NullSnap,
         force |-> FALSE, invCapsAtCall |-> -1]

NoGet == [kind |-> "none", force |-> FALSE, cond |-> FALSE, ncap |-> 0,
          value |-> NullSnap, invCapsAtCall |-> -1, afterInvalidate |-> FALSE,
          asked |-> "null"]

\* invalidate() that leaves the time stamp of the dropped snapshot
InvalidatedCachedAtKept == cachedAt

\* invalidate(): `this.cachedAt = 0`
InvalidatedCachedAt == 0

\* CachedSnapshot.ageMs
ageMs == IF cached = NullSnap THEN "Infinity" ELSE now - cachedAt

\* Mutant of isStale: a snapshot whose age equals maxAgeMs counts as stale.
isStaleStrict == cached = NullSnap \/ (now - cachedAt) >= maxAgeMs

\* CachedSnapshot.isStale()
isStale == cached = NullSnap \/ (now - cachedAt) > maxAgeMs

\* `options || this.defaultOptions`
EffectiveOptions(options) == IF options = "none" THEN DefaultOptions ELSE options

\* Observed when get(options, forceRefresh) is entered: is a snapshot stored
\* whose age is at most maxAgeMs, with forceRefresh false.
HitCondition(force) ==
    cached # NullSnap /\ ~force /\ (now - cachedAt) <= maxAgeMs

\* get(options, forceRefresh) when the cache is fresh: returns this.cached.
GetCached(force, options) ==
    /\ ~(force \/ isStale)
    /\ lastGet' = [kind |-> "cached", force |-> force,
                   cond |-> HitCondition(force), ncap |-> 0, value |-> cached,
                   invCapsAtCall |-> invCaps,
                   afterInvalidate |-> invalidatedLast,
                   asked |-> EffectiveOptions(options)]
    /\ invalidatedLast' = FALSE
    /\ UNCHANGED notCache
    /\ UNCHANGED <<now, maxAgeMs, cached, cachedAt, cachedUrl, inflight,
                   captures, invCaps>>

\* get(options, forceRefresh) by task t, up to `await snapshot(this.backend, ...)`.
GetRefreshCall(t, force, options) ==
    /\ inflight[t].phase = "idle"
    /\ force \/ isStale
    /\ inflight' = [inflight EXCEPT ![t] =
          [phase |-> "waiting", opts |-> EffectiveOptions(options),
           snap |-> NullSnap, force |-> force, invCapsAtCall |-> invCaps]]
    /\ lastGet' = [NoGet EXCEPT !.kind = "suspended", !.force = force,
                                !.cond = HitCondition(force),
                                !.afterInvalidate = invalidatedLast]
    /\ invalidatedLast' = FALSE
    /\ UNCHANGED notCache
    /\ UNCHANGED <<now, maxAgeMs, cached, cachedAt, cachedUrl, captures,
                   invCaps>>

\* snapshot(): the extension captures the page for the suspended get() of t.
BackendCapture(t) ==
    /\ inflight[t].phase = "waiting"
    /\ captures < MaxCaptures
    /\ inflight' = [inflight EXCEPT ![t].phase = "captured",
                       ![t].snap = [id |-> captures + 1, url |-> SnapshotUrl,
                                    opts |-> inflight[t].opts]]
    /\ captures' = captures + 1
    /\ lastGet' = NoGet
    /\ UNCHANGED notCache
    /\ UNCHANGED <<now, maxAgeMs, cached, cachedAt, cachedUrl, invCaps,
                   invalidatedLast>>

\* get() of t resumed with the snapshot: store it, stamp it, return this.cached.
GetResume(t) ==
    /\ inflight[t].phase = "captured"
    /\ cached' = inflight[t].snap
    /\ cachedAt' = now
    /\ cachedUrl' = inflight[t].snap.url
    /\ inflight' = [inflight EXCEPT ![t] = Idle]
    /\ lastGet' = [kind |-> "fresh", force |-> inflight[t].force,
                   cond |-> FALSE, ncap |-> 1, value |-> cached',
                   invCapsAtCall |-> inflight[t].invCapsAtCall,
                   afterInvalidate |-> FALSE,
                   asked |-> inflight[t].opts]
    /\ UNCHANGED notCache
    /\ UNCHANGED <<now, maxAgeMs, captures, invCaps, invalidatedLast>>

\* snapshot() throws (ExtensionNotLoadedError, SnapshotError, backend error):
\* get() rejects and the fields of the cache are left as they are.
GetFail(t) ==
    /\ inflight[t].phase \in {"waiting", "captured"}
    /\ inflight' = [inflight EXCEPT ![t] = Idle]
    /\ lastGet' = [NoGet EXCEPT !.kind = "error", !.force = inflight[t].force,
                      !.ncap = IF inflight[t].phase = "captured" THEN 1 ELSE 0]
    /\ UNCHANGED notCache
    /\ UNCHANGED <<now, maxAgeMs, cached, cachedAt, cachedUrl, captures,
                   invCaps, invalidatedLast>>

\* invalidate()
Invalidate ==
    /\ cached' = NullSnap
    /\ cachedAt' = InvalidatedCachedAt
    /\ cachedUrl' = "null"
    /\ invCaps' = captures
    /\ invalidatedLast' = TRUE
    /\ lastGet' = NoGet
    /\ UNCHANGED notCache
    /\ UNCHANGED <<now, maxAgeMs, inflight, captures>>

\* Time passes.
Tick ==
    /\ now < MaxNow
    /\ now' = now + 1
    /\ lastGet' = NoGet
    /\ UNCHANGED notCache
    /\ UNCHANGED <<maxAgeMs, cached, cachedAt, cachedUrl, inflight,
                   captures, invCaps, invalidatedLast>>

\* new CachedSnapshot(backend, maxAgeMs, options)
InitCache ==
    /\ now = 1
    /\ maxAgeMs \in 0..MaxAgeBound
    /\ cached = NullSnap
    /\ cachedAt = 0
    /\ cachedUrl = "null"
    /\ inflight = [t \in Tasks |-> Idle]
    /\ captures = 0
    /\ invCaps = -1
    /\ invalidatedLast = FALSE
    /\ lastGet = NoGet

NextCache ==
    \/ \E f \in BOOLEAN, o \in CallOptions : GetCached(f, o)
    \/ \E t \in Tasks, f \in BOOLEAN, o \in CallOptions : GetRefreshCall(t, f, o)
    \/ \E t \in Tasks : BackendCapture(t)
    \/ \E t \in Tasks : GetResume(t)
    \/ \E t \in Tasks : GetFail(t)
    \/ Invalidate
    \/ Tick

(***************************************************************************)
(*                      EventuallyWrapper.evaluate                         *)
(***************************************************************************)
\* Errors a refresh callback or a predicate may throw, by the taxonomy of
\* the error-handling design.
TransportOrProtocol == {"transport", "protocol"}
CancellationOrPolicy == {"cancelled", "policy"}
ErrorKinds == TransportOrProtocol \cup CancellationOrPolicy

\* `null` as a snapshot.
NoSnapshot == [id |-> -1, url |-> "null"]

\* The AssertContext handed to evaluate().
InitialContext == [snapshot |-> [id |-> 0, url |-> "initial-url"],
                   url |-> "initial-url", stepId |-> "step-1",
                   downloads |-> "present"]

\* How much later than asked a setTimeout() may fire, in clock units.
SleepJitter == {0, 1}

\* Time a call to snapshotFn() may take, in clock units.
RefreshDelays == {0, 1}

\* An AssertOutcome.  `reason` is kept in two parts: the termination causes
\* put in front of it (outermost first) and the reason it was created with;
\* `by` is the position in the log of the attempt that produced it;
\* `attempts` is details.attempts (-1: not set); `error` is details.error.
NullOutcome == [passed |-> FALSE, prefixes |-> <<>>, base |-> "null", by |-> 0,
                attempts |-> -1, error |-> "none"]

\* Mutant of Prefixed: the reason is left without the cause.
PrefixDropped(cause, o) == o

\* `${cause}: ${lastOutcome.reason}` assigned to lastOutcome.reason
Prefixed(cause, o) == [o EXCEPT !.prefixes = <<cause>> \o @]

\* `if (lastOutcome) { lastOutcome.reason = ...; return lastOutcome; }
\*  return { passed: false, reason: cause, details: { attempts } };`
ReturnLast(cause) ==
    /\ result' = IF lastOutcome # NullOutcome
                 THEN Prefixed(cause, lastOutcome)
                 ELSE [NullOutcome EXCEPT !.base = cause, !.attempts = attempts]
    /\ pc' = "done"

\* Mutant of PassAttempts: the passing attempt itself is not counted.
PassAttemptsOffByOne == attempts

\* `outcome.details.attempts = attempts + 1`
PassAttempts == attempts + 1

\* `elapsed >= this._config.timeout`
TimedOut == clock >= config.timeout

\* Mutant of RetriesExhausted: one attempt too many is allowed.
RetriesExhaustedLate == attempts > config.maxRetries

\* `attempts >= this._config.maxRetries`
RetriesExhausted == attempts >= config.maxRetries

\* Mutant of NeedsRefresh: the second attempt reuses the initial context too.
NeedsRefreshLate == attempts > 1

\* `if (attempts > 0)`: take a fresh snapshot if not the first attempt.
NeedsRefresh == attempts > 0

\* Lines 534-554: evaluate the predicate on context c at clock value t.
\* The predicate passes, fails, or throws an error of kind e.
EvaluatePredicate(c, t, lg) ==
    LET n == Len(lg) + 1 IN
    /\ ctx' = c
    /\ clock' = t
    /\ \/ \* the predicate passes
          /\ result' = [passed |-> TRUE, prefixes |-> <<>>, base |-> "",
                        by |-> n, attempts |-> PassAttempts, error |-> "none"]
          /\ log' = Append(lg, [ev |-> "predicate", snap |-> c.snapshot,
                                 passed |-> TRUE])
          /\ pc' = "done"
          /\ UNCHANGED <<attempts, lastOutcome, raised>>
       \/ \* the predicate throws: nothing catches it
          \E e \in ErrorKinds :
            /\ raised' = e
            /\ log' = Append(lg, [ev |-> "predicate_threw",
                                   snap |-> c.snapshot, passed |-> FALSE])
            /\ pc' = "thrown"
            /\ UNCHANGED <<attempts, lastOutcome, result>>
       \/ \* the predicate fails
          LET outcome == [passed |-> FALSE, prefixes |-> <<>>,
                          base |-> "predicate", by |-> n, attempts |-> -1,
                          error |-> "none"] IN
          /\ log' = Append(lg, [ev |-> "predicate", snap |-> c.snapshot,
                                 passed |-> FALSE])
          /\ attempts' = attempts + 1
          /\ UNCHANGED raised
          /\ IF attempts + 1 < config.maxRetries
             THEN IF t + config.poll < config.timeout
                  THEN /\ lastOutcome' = outcome
                       /\ pc' = "sleep"
                       /\ UNCHANGED result
                  ELSE \* no point waiting, we'll timeout anyway
                       /\ lastOutcome' = Prefixed("timeout", outcome)
                       /\ result' = lastOutcome'
                       /\ pc' = "done"
             ELSE /\ lastOutcome' = outcome
                  /\ pc' = "top"
                  /\ UNCHANGED result

\* Loop top: `elapsed >= timeout`.
ReturnTimeout ==
    /\ pc = "top"
    /\ TimedOut
    /\ ReturnLast("timeout")
    /\ UNCHANGED <<config, clock, attempts, lastOutcome, ctx, refreshes,
                   raised, log>>
    /\ UNCHANGED notEventually

\* Loop top: `attempts >= maxRetries`.
ReturnMaxRetries ==
    /\ pc = "top"
    /\ ~TimedOut
    /\ RetriesExhausted
    /\ ReturnLast("max retries")
    /\ UNCHANGED <<config, clock, attempts, lastOutcome, ctx, refreshes,
                   raised, log>>
    /\ UNCHANGED notEventually

\* Loop top on the first attempt: the predicate is evaluated on the context
\* that was passed in.
FirstAttempt ==
    /\ pc = "top"
    /\ ~TimedOut
    /\ ~RetriesExhausted
    /\ ~NeedsRefresh
    /\ EvaluatePredicate(ctx, clock, log)
    /\ UNCHANGED <<config, refreshes>>
    /\ UNCHANGED notEventually

\* Loop top on a later attempt: `await snapshotFn()` is entered.
CallRefresh ==
    /\ pc = "top"
    /\ ~TimedOut
    /\ ~RetriesExhausted
    /\ NeedsRefresh
    /\ pc' = "refresh"
    /\ refreshes' = refreshes + 1
    /\ UNCHANGED <<config, clock, attempts, lastOutcome, ctx, result, raised,
                   log>>
    /\ UNCHANGED notEventually

\* snapshotFn() resolves with a snapshot (carrying a url) or with no snapshot:
\* the context is rebuilt and the predicate evaluated on it.
RefreshResolves ==
    /\ pc = "refresh"
    /\ \E d \in RefreshDelays, hasSnapshot \in BOOLEAN :
         LET freshSnapshot == IF hasSnapshot
                              THEN [id |-> refreshes, url |-> "fresh-url"]
                              ELSE NoSnapshot
             c == [snapshot |-> freshSnapshot,
                   url |-> IF freshSnapshot.url # "null"
                           THEN freshSnapshot.url ELSE ctx.url,
                   stepId |-> ctx.stepId,
                   downloads |-> "absent"]
         IN  EvaluatePredicate(c, clock + d,
                   Append(log, [ev |-> "refresh_ok", snap |-> freshSnapshot,
                                passed |-> TRUE]))
    /\ UNCHANGED <<config, refreshes>>
    /\ UNCHANGED notEventually

\* snapshotFn() rejects with an error of kind e: `catch (e)` makes it the
\* last outcome, counts the attempt and sleeps.
RefreshRejects ==
    /\ pc = "refresh"
    /\ \E d \in RefreshDelays, e \in ErrorKinds :
         /\ clock' = clock + d
         /\ lastOutcome' = [passed |-> FALSE, prefixes |-> <<>>,
                            base |-> "failed to take snapshot",
                            by |-> Len(log) + 1, attempts |-> attempts,
                            error |-> e]
    /\ log' = Append(log, [ev |-> "refresh_failed", snap |-> NoSnapshot,
                           passed |-> FALSE])
    /\ attempts' = attempts + 1
    /\ pc' = "sleep"
    /\ UNCHANGED <<config, ctx, refreshes, result, raised>>
    /\ UNCHANGED notEventually

\* `await this.sleep(poll)` completes.
SleepDone ==
    /\ pc = "sleep"
    /\ \E j \in SleepJitter : clock' = clock + config.poll + j
    /\ pc' = "top"
    /\ UNCHANGED <<config, attempts, lastOutcome, ctx, refreshes, result,
                   raised, log>>
    /\ UNCHANGED notEventually

\* evaluate(ctx, snapshotFn) is entered: startTime = Date.now().
InitEventually ==
    /\ config \in [timeout : 0..MaxTimeout, poll : 0..MaxPoll,
                   maxRetries : 0..MaxRetriesBound]
    /\ pc = "top"
    /\ clock = 0
    /\ attempts = 0
    /\ lastOutcome = NullOutcome
    /\ ctx = InitialContext
    /\ refreshes = 0
    /\ result = NullOutcome
    /\ raised = "none"
    /\ log = <<>>

NextEventually ==
    \/ ReturnTimeout
    \/ ReturnMaxRetries
    \/ FirstAttempt
    \/ CallRefresh
    \/ RefreshResolves
    \/ RefreshRejects
    \/ SleepDone

(***************************************************************************)
(*              SentienceDebugger / DebuggerAssertionHandle                *)
(*                                                                         *)
(* The debugger drives an AgentRuntime.  The runtime's step operations     *)
(* (beginStep, emitStepEnd, the recording of a verification) are modelled  *)
(* from the specification of the agent runtime; the debugger and its       *)
(* assertion handle are modelled from their code.                          *)
(***************************************************************************)

NoStepId == 0     \* stepId / autoOpenedStepId / openedStepId = null

Handles == {"h1", "h2"}   \* program variables holding a handle of check()

ManualGoal == "goal"
VerifyGoalUnprefixed == "label"   \* the label without its prefix
VerifyGoal == "verify:label"   \* `verify:${label}`

NoHandle == [state |-> "none", autoClose |-> FALSE, openedStepId |-> NoStepId,
             attempts |-> 0]

NoCall == [op |-> "none", raised |-> FALSE, openAtCall |-> FALSE,
           emitted |-> 0, end |-> "none", repeat |-> FALSE,
           stepOpenAtCall |-> FALSE, autoOpenAtCall |-> FALSE,
           closedFirst |-> FALSE]

Event(type, step, goal, n) ==
    [type |-> type, step |-> step, goal |-> goal, verifications |-> n]

trace == runtime.events

\* ---- AgentRuntime ----

\* beginStep that opens a step without looking at the step already open
RtBeginStepUndetected(rt, goal) ==
    LET id == rt.stepCount + 1
    IN [rt |-> [rt EXCEPT !.openSteps = @ \cup {id},
                          !.stepId = id,
                          !.stepCount = id,
                          !.assertionsThisStep = 0,
                          !.events = Append(@, Event("step_start", id, goal, 0))],
        raised |-> FALSE]

\* runtime.beginStep(goal): raises while a step is open; otherwise takes a
\* fresh id, marks the step open and emits step_start.
RtBeginStep(rt, goal) ==
    IF rt.openSteps # {}
    THEN [rt |-> rt, raised |-> TRUE]
    ELSE LET id == rt.stepCount + 1
         IN [rt |-> [rt EXCEPT !.openSteps = {id},
                               !.stepId = id,
                               !.stepCount = id,
                               !.assertionsThisStep = 0,
                               !.events = Append(@, Event("step_start", id, goal, 0))],
             raised |-> FALSE]

\* emitStepEnd that emits step_end whether or not a step is open
RtEmitStepEndUnguarded(rt) ==
    [rt EXCEPT !.openSteps = @ \ {rt.stepId},
               !.assertionsThisStep = 0,
               !.events = Append(@, Event("step_end", rt.stepId, "",
                                         rt.assertionsThisStep))]

\* runtime.emitStepEnd(opts): closes the current step and emits step_end
\* with the accumulated verifications; a no-op when no step is open.
RtEmitStepEnd(rt) ==
    IF rt.openSteps = {}
    THEN rt
    ELSE [rt EXCEPT !.openSteps = @ \ {rt.stepId},
                    !.assertionsThisStep = 0,
                    !.events = Append(@, Event("step_end", rt.stepId, "",
                                              rt.assertionsThisStep))]

\* One evaluation of an assertion: a verification event for the current
\* stepId, accumulated in the current step.
RtRecordVerification(rt) ==
    [rt EXCEPT !.assertionsThisStep = @ + 1,
               !.events = Append(@, Event("verification", rt.stepId, "", 0))]

\* ---- SentienceDebugger ----

\* beginStep that leaves an auto-opened verification step open
ClosesAutoStepNever == FALSE

\* beginStep: `if (this.stepOpen && this.autoOpenedStep)`
ClosesAutoStep == stepOpen /\ autoOpenedStep

\* step() that ends the step only when fn returned
EndsStepOnlyOnReturn(fnThrew) == ~fnThrew

\* step(): `try { await fn(); } finally { await this.endStep(); }`
EndsStepAfterFn(fnThrew) == TRUE

isAutoStepOpenFor(stepId) ==
    /\ stepOpen
    /\ autoOpenedStep
    /\ autoOpenedStepId # NoStepId
    /\ stepId # NoStepId
    /\ autoOpenedStepId = stepId

\* The model stays within its bounds.
WithinBounds ==
    /\ Len(runtime'.events) <= MaxEvents
    /\ runtime'.stepCount <= MaxSteps

Called(op, threw, openAtCall, end) ==
    lastCall' = [op |-> op, raised |-> threw, openAtCall |-> openAtCall,
                 stepOpenAtCall |-> stepOpen,
                 autoOpenAtCall |-> (stepOpen /\ autoOpenedStep),
                 \* runtime.emitStepEnd was issued, and runtime.beginStep after it
                 closedFirst |-> /\ op \in {"beginStep", "step"}
                                 /\ ClosesAutoStep,
                 emitted |-> Len(runtime'.events) - Len(runtime.events),
                 end |-> end,
                 repeat |-> \/ (end = "endStep" /\ op = "endStep"
                                   /\ lastCall.end = "endStep")
                            \/ (end = "emitStepEnd"
                                   /\ lastCall.end \in {"endStep", "emitStepEnd"})]

\* dbg.beginStep(goal)
DbgBeginStep ==
    LET closesAuto == ClosesAutoStep
        rt1 == IF closesAuto THEN RtEmitStepEnd(runtime) ELSE runtime
        r == RtBeginStep(rt1, ManualGoal)
    IN /\ autoOpenedStep' = (IF closesAuto THEN FALSE ELSE autoOpenedStep)
       /\ autoOpenedStepId' = (IF closesAuto THEN NoStepId ELSE autoOpenedStepId)
       /\ stepOpen' = TRUE
       /\ runtime' = r.rt
       /\ WithinBounds
       /\ Called("beginStep", r.raised, rt1.openSteps # {}, "none")
       /\ UNCHANGED <<autoStep, handles, stepTask>>
       /\ UNCHANGED notDebugger

\* dbg.endStep()
DbgEndStep ==
    /\ stepOpen' = FALSE
    /\ autoOpenedStep' = FALSE
    /\ autoOpenedStepId' = NoStepId
    /\ runtime' = RtEmitStepEnd(runtime)
    /\ WithinBounds
    /\ Called("endStep", FALSE, FALSE, "endStep")
    /\ UNCHANGED <<autoStep, handles, stepTask>>
    /\ UNCHANGED notDebugger

\* dbg.step(goal, fn), up to `await fn()`
DbgStepCall ==
    LET closesAuto == ClosesAutoStep
        rt1 == IF closesAuto THEN RtEmitStepEnd(runtime) ELSE runtime
        r == RtBeginStep(rt1, ManualGoal)
    IN /\ stepTask = "idle"
       /\ autoOpenedStep' = (IF closesAuto THEN FALSE ELSE autoOpenedStep)
       /\ autoOpenedStepId' = (IF closesAuto THEN NoStepId ELSE autoOpenedStepId)
       /\ stepOpen' = TRUE
       /\ runtime' = r.rt
       /\ WithinBounds
       /\ stepTask' = (IF r.raised THEN "idle" ELSE "inFn")
       /\ Called("step", r.raised, rt1.openSteps # {}, "none")
       /\ UNCHANGED <<autoStep, handles>>
       /\ UNCHANGED notDebugger

\* dbg.step(goal, fn), from the end of fn (returned or thrown): `finally`
DbgStepFinally(fnThrew) ==
    /\ stepTask = "inFn"
    /\ IF EndsStepAfterFn(fnThrew)
       THEN /\ stepOpen' = FALSE
            /\ autoOpenedStep' = FALSE
            /\ autoOpenedStepId' = NoStepId
            /\ runtime' = RtEmitStepEnd(runtime)
            /\ Called("stepFinally", fnThrew, FALSE, "endStep")
       ELSE /\ UNCHANGED <<stepOpen, autoOpenedStep, autoOpenedStepId, runtime>>
            /\ Called("stepFinally", fnThrew, FALSE, "none")
    /\ WithinBounds
    /\ stepTask' = "idle"
    /\ UNCHANGED <<autoStep, handles>>
    /\ UNCHANGED notDebugger

\* h = dbg.check(predicate, label)
DbgCheck(h) ==
    /\ handles[h].state \in {"none", "ready"}
    /\ IF stepOpen
       THEN \* a step is open: the runtime's own handle
            /\ handles' = [handles EXCEPT ![h] = [NoHandle EXCEPT !.state = "ready"]]
            /\ UNCHANGED <<stepOpen, autoOpenedStep, autoOpenedStepId, runtime>>
            /\ Called("check", FALSE, FALSE, "none")
       ELSE IF ~autoStep
       THEN \* throw new Error('No active step. ...')
            /\ UNCHANGED <<stepOpen, autoOpenedStep, autoOpenedStepId, runtime,
                           handles>>
            /\ Called("check", TRUE, FALSE, "none")
       ELSE LET r == RtBeginStep(runtime, VerifyGoal)
            IN /\ stepOpen' = TRUE
               /\ runtime' = r.rt
               /\ WithinBounds
               /\ Called("check", r.raised, runtime.openSteps # {}, "none")
               /\ IF r.raised
                  THEN UNCHANGED <<autoOpenedStep, autoOpenedStepId, handles>>
                  ELSE /\ autoOpenedStep' = TRUE
                       /\ autoOpenedStepId' = r.rt.stepId
                       /\ handles' = [handles EXCEPT ![h] =
                              [state |-> "ready", autoClose |-> TRUE,
                               openedStepId |-> r.rt.stepId, attempts |-> 0]]
    /\ UNCHANGED <<autoStep, stepTask>>
    /\ UNCHANGED notDebugger

\* What the handle does once its assertion has been evaluated
AutoCloses(h) == handles[h].autoClose /\ isAutoStepOpenFor(handles[h].openedStepId)

\* h.once()
HandleOnce(h) ==
    LET rt1 == RtRecordVerification(runtime)
    IN /\ handles[h].state = "ready"
       /\ IF AutoCloses(h)
          THEN /\ stepOpen' = FALSE
               /\ autoOpenedStep' = FALSE
               /\ autoOpenedStepId' = NoStepId
               /\ runtime' = RtEmitStepEnd(rt1)
               /\ Called("once", FALSE, FALSE, "endStep")
          ELSE /\ runtime' = rt1
               /\ Called("once", FALSE, FALSE, "none")
               /\ UNCHANGED <<stepOpen, autoOpenedStep, autoOpenedStepId>>
       /\ WithinBounds
       /\ UNCHANGED <<autoStep, handles, stepTask>>
       /\ UNCHANGED notDebugger

\* h.eventually(): one attempt of super.eventually(), the first one or one
\* after a sleep
HandleEventuallyAttempt(h, passed) ==
    LET n == handles[h].attempts + 1
    IN /\ handles[h].state \in {"ready", "polling"}
       /\ runtime' = RtRecordVerification(runtime)
       /\ WithinBounds
       /\ handles' = [handles EXCEPT ![h].state =
                          IF passed \/ n >= MaxAttempts THEN "settled" ELSE "polling",
                                     ![h].attempts = n]
       /\ Called("eventually", FALSE, FALSE, "none")
       /\ UNCHANGED <<autoStep, stepOpen, autoOpenedStep, autoOpenedStepId, stepTask>>
       /\ UNCHANGED notDebugger

\* h.eventually(), from the end of `await super.eventually(options)`
HandleEventuallyResume(h) ==
    /\ handles[h].state = "settled"
    /\ IF AutoCloses(h)
       THEN /\ stepOpen' = FALSE
            /\ autoOpenedStep' = FALSE
            /\ autoOpenedStepId' = NoStepId
            /\ runtime' = RtEmitStepEnd(runtime)
            /\ Called("eventuallyResume", FALSE, FALSE, "endStep")
       ELSE /\ UNCHANGED <<stepOpen, autoOpenedStep, autoOpenedStepId, runtime>>
            /\ Called("eventuallyResume", FALSE, FALSE, "none")
    /\ WithinBounds
    /\ handles' = [handles EXCEPT ![h].state = "ready", ![h].attempts = 0]
    /\ UNCHANGED <<autoStep, stepTask>>
    /\ UNCHANGED notDebugger

\* dbg.runtime.beginStep(goal), called on the runtime itself
RuntimeBeginStep ==
    LET r == RtBeginStep(runtime, ManualGoal)
    IN /\ runtime' = r.rt
       /\ WithinBounds
       /\ Called("runtime.beginStep", r.raised, runtime.openSteps # {}, "none")
       /\ UNCHANGED <<autoStep, stepOpen, autoOpenedStep, autoOpenedStepId,
                      handles, stepTask>>
       /\ UNCHANGED notDebugger

\* dbg.runtime.emitStepEnd(), called on the runtime itself
RuntimeEmitStepEnd ==
    /\ runtime' = RtEmitStepEnd(runtime)
    /\ WithinBounds
    /\ Called("runtime.emitStepEnd", FALSE, FALSE, "emitStepEnd")
    /\ UNCHANGED <<autoStep, stepOpen, autoOpenedStep, autoOpenedStepId,
                   handles, stepTask>>
    /\ UNCHANGED notDebugger

InitDebugger ==
    /\ autoStep \in BOOLEAN
    /\ stepOpen = FALSE
    /\ autoOpenedStep = FALSE
    /\ autoOpenedStepId = NoStepId
    /\ runtime = [openSteps |-> {}, stepId |-> NoStepId, stepCount |-> 0,
                  assertionsThisStep |-> 0, events |-> <<>>]
    /\ handles = [h \in Handles |-> NoHandle]
    /\ stepTask = "idle"
    /\ lastCall = NoCall

NextDebugger ==
    \/ DbgBeginStep
    \/ DbgEndStep
    \/ DbgStepCall
    \/ \E fnThrew \in BOOLEAN : DbgStepFinally(fnThrew)
    \/ \E h \in Handles : DbgCheck(h)
    \/ \E h \in Handles : HandleOnce(h)
    \/ \E h \in Handles, passed \in BOOLEAN : HandleEventuallyAttempt(h, passed)
    \/ \E h \in Handles : HandleEventuallyResume(h)
    \/ RuntimeBeginStep
    \/ RuntimeEmitStepEnd

(***************************************************************************)
(*                          The polling loops                              *)
(*                                                                         *)
(* CDPBackend.waitReadyState, waitForExtension (snapshot.ts) and           *)
(* SentienceContext._waitForExtension.  Time is counted in ticks of 50 ms. *)
(* abortSignal is the external abort signal of the caller; none of the     *)
(* three loops has a parameter for it.                                     *)
(***************************************************************************)

WaitKinds == {"waitReadyState", "waitForExtension", "_waitForExtension"}

PollMs == 2   \* sleep(100) / pollIntervalMs = 100

EvalResults == {"ready", "notReady", "throws"}

\* document.readyState
ReadyStates == {"loading", "interactive", "complete"}

\* what `await backend.eval(...)` of the readiness test can give
ProbeResults(kind) ==
    IF kind = "waitReadyState" THEN ReadyStates \cup {"throws"} ELSE EvalResults

\* a waitReadyState that takes 'interactive' for 'complete'
AcceptableStatesLoose(state) == {"interactive", "complete"}

\* waitReadyState: acceptableStates
AcceptableStates(state) ==
    IF state = "complete" THEN {"complete"} ELSE {"interactive", "complete"}

\* a loop that takes any answer of the page for readiness
TruthyAlways(res) == res # "throws"

\* `if (ready)` / `if (result === true)`
Truthy(res) == res = "ready"

\* the readiness test has succeeded
IsReady(kind, state, res) ==
    IF kind = "waitReadyState" THEN res \in AcceptableStates(state) ELSE Truthy(res)

\* _waitForExtension that does not count the time it has slept
ElapsedAfterSleepStuck(elapsedMs) == elapsedMs

\* _waitForExtension: `elapsedMs += pollIntervalMs`
ElapsedAfterSleep(elapsedMs) == elapsedMs + PollMs

\* The top of `while (true)` / `while (elapsedMs < timeoutMs)`
WaitLoopTop ==
    /\ waitPc = "top"
    /\ LET timedOut == IF waitKind = "_waitForExtension"
                       THEN ~(waitElapsedMs < waitTimeoutMs)
                       ELSE waitClock >= waitTimeoutMs
       IN IF timedOut
          THEN /\ waitPc' = (IF waitKind = "waitForExtension" THEN "diag" ELSE "done")
               /\ waitOutcome' = (CASE waitKind = "waitReadyState" -> "Timed out"
                                    [] waitKind = "waitForExtension" -> waitOutcome
                                    [] OTHER -> "false")
               /\ UNCHANGED <<waitPolls, polledAfterAbort>>
          ELSE /\ waitPc' = "eval"
               /\ waitPolls' = waitPolls + 1
               /\ polledAfterAbort' = (polledAfterAbort \/ abortSignal)
               /\ UNCHANGED waitOutcome
    /\ UNCHANGED <<waitKind, waitTimeoutMs, waitClock, waitElapsedMs, abortSignal>>
    /\ UNCHANGED probeVars
    /\ UNCHANGED notWait

\* `await backend.eval(...)` of the readiness test is over
WaitEvalDone(d, res) ==
    /\ waitPc = "eval"
    /\ waitClock' = waitClock + d
    /\ lastProbe' = res
    /\ probeErrors' = (IF res = "throws" /\ waitKind # "waitReadyState"
                       THEN probeErrors + 1 ELSE probeErrors)
    /\ UNCHANGED <<waitState, diagnostics, extensionSnapshot>>
    /\ IF IsReady(waitKind, waitState, res)
       THEN /\ waitPc' = "done"
            /\ waitOutcome' = (IF waitKind = "_waitForExtension" THEN "true"
                               ELSE "returned")
       ELSE IF res = "throws" /\ waitKind = "waitReadyState"
       THEN \* this.eval() is not inside a try
            /\ waitPc' = "done"
            /\ waitOutcome' = "eval error"
       ELSE /\ waitPc' = "sleep"
            /\ UNCHANGED waitOutcome
    /\ UNCHANGED <<waitKind, waitTimeoutMs, waitElapsedMs, waitPolls, abortSignal,
                   polledAfterAbort>>
    /\ UNCHANGED notWait

\* waitForExtension: the diagnostics were gathered (or could not be)
WaitDiagnosticsDone(d, gathered) ==
    /\ waitPc = "diag"
    /\ waitClock' = waitClock + d
    /\ waitPc' = "done"
    /\ waitOutcome' = "ExtensionNotLoadedError"
    /\ diagnostics' = (IF gathered THEN "gathered"
                       ELSE "Could not gather diagnostics")
    /\ UNCHANGED <<waitState, lastProbe, probeErrors, extensionSnapshot>>
    /\ UNCHANGED <<waitKind, waitTimeoutMs, waitElapsedMs, waitPolls, abortSignal,
                   polledAfterAbort>>
    /\ UNCHANGED notWait

\* `await sleep(100)` is over, after 100 ms or a little more
WaitSleepDone(j) ==
    /\ waitPc = "sleep"
    /\ waitClock' = waitClock + PollMs + j
    /\ waitElapsedMs' = (IF waitKind = "_waitForExtension"
                         THEN ElapsedAfterSleep(waitElapsedMs)
                         ELSE waitElapsedMs)
    /\ waitPc' = "top"
    /\ UNCHANGED <<waitKind, waitTimeoutMs, waitPolls, waitOutcome, abortSignal,
                   polledAfterAbort>>
    /\ UNCHANGED probeVars
    /\ UNCHANGED notWait

\* The caller raises its abort signal while the loop runs.
RaiseAbort ==
    /\ waitPc # "done"
    /\ ~abortSignal
    /\ abortSignal' = TRUE
    /\ UNCHANGED <<waitKind, waitTimeoutMs, waitPc, waitClock, waitElapsedMs,
                   waitPolls, waitOutcome, polledAfterAbort>>
    /\ UNCHANGED probeVars
    /\ UNCHANGED notWait

\* snapshotViaExtension: waitForExtension has returned, the extension's
\* snapshot function is called.
SnapshotViaExtensionEval ==
    /\ waitKind = "waitForExtension"
    /\ waitOutcome = "returned"
    /\ extensionSnapshot = "notCalled"
    /\ extensionSnapshot' = "called"
    /\ UNCHANGED <<waitKind, waitTimeoutMs, waitPc, waitClock, waitElapsedMs,
                   waitPolls, waitOutcome, abortSignal, polledAfterAbort,
                   waitState, lastProbe, probeErrors, diagnostics>>
    /\ UNCHANGED notWait

InitWait ==
    /\ waitKind \in WaitKinds
    /\ waitTimeoutMs \in 0..MaxWaitTimeout
    /\ waitPc = "top"
    /\ waitClock = 0
    /\ waitElapsedMs = 0
    /\ waitPolls = 0
    /\ waitOutcome = "pending"
    /\ abortSignal = FALSE
    /\ polledAfterAbort = FALSE
    /\ waitState \in (IF waitKind = "waitReadyState"
                       THEN {"interactive", "complete"} ELSE {"interactive"})
    /\ lastProbe = "none"
    /\ probeErrors = 0
    /\ diagnostics = "none"
    /\ extensionSnapshot = "notCalled"

NextWaitLoop ==
    \/ WaitLoopTop
    \/ \E d \in 0..MaxEvalDuration, res \in ProbeResults(waitKind) : WaitEvalDone(d, res)
    \/ \E d \in 0..MaxEvalDuration, gathered \in BOOLEAN : WaitDiagnosticsDone(d, gathered)
    \/ \E j \in 0..MaxSleepJitter : WaitSleepDone(j)

NextWait == NextWaitLoop \/ RaiseAbort \/ SnapshotViaExtensionEval

(***************************************************************************)
(*                  Predicates of the verification module                  *)
(*                                                                         *)
(* urlMatches(pattern) keeps the RegExp it was built with and calls        *)
(* rx.test(url) at every evaluation.  A URL is a sequence of characters,   *)
(* a pattern a literal sequence of characters.                             *)
(***************************************************************************)

Chars == {"a", "b"}

RECURSIVE SeqsUpTo(_)
SeqsUpTo(n) ==
    IF n = 0 THEN {<<>>}
    ELSE LET shorter == SeqsUpTo(n - 1)
         IN shorter \cup {Append(w, c) : w \in shorter, c \in Chars}

Urls == SeqsUpTo(MaxUrlLen)
Patterns == SeqsUpTo(MaxPatternLen) \ {<<>>}

\* The pattern occurs in str at the 0-based index i.
MatchesAt(pattern, str, i) ==
    /\ i + Len(pattern) <= Len(str)
    /\ SubSeq(str, i + 1, i + Len(pattern)) = pattern

\* RegExp.prototype.test(str): the result and the lastIndex it leaves.  A
\* global or sticky RegExp starts at its lastIndex and moves it.
RegExpTest(re, str) ==
    IF ~(re.global \/ re.sticky)
    THEN [ok |-> \E i \in 0..Len(str) : MatchesAt(re.source, str, i),
          lastIndex |-> re.lastIndex]
    ELSE LET from == re.lastIndex
             found == IF re.sticky
                      THEN {i \in {from} : MatchesAt(re.source, str, i)}
                      ELSE {i \in from..Len(str) : MatchesAt(re.source, str, i)}
         IN IF from > Len(str) \/ found = {}
            THEN [ok |-> FALSE, lastIndex |-> 0]
            ELSE LET i == CHOOSE k \in found : \A m \in found : k <= m
                 IN [ok |-> TRUE, lastIndex |-> i + Len(re.source)]

\* The outcome of the predicate of urlMatches(pattern)
UrlMatchesOutcome(ok, pattern, url) ==
    [passed |-> ok,
     reason |-> IF ok THEN <<>> ELSE <<"url did not match pattern: ", pattern>>,
     details |-> [pattern |-> pattern, url |-> url]]

\* pred(ctx) for pred = urlMatches(pattern), ctx.url = url
EvalUrlMatches(url) ==
    LET t == RegExpTest(rx, url)
    IN /\ Len(matchLog) < MaxEvals
       /\ rx' = [rx EXCEPT !.lastIndex = t.lastIndex]
       /\ matchLog' = Append(matchLog,
                             [url |-> url,
                              outcome |-> UrlMatchesOutcome(t.ok, rx.source, url)])
       /\ UNCHANGED <<subPredicates, combined>>
       /\ UNCHANGED notVerify

\* pred = urlMatches(pattern), pattern a string or a RegExp
InitUrlMatches ==
    /\ \E src \in Patterns, fromString \in BOOLEAN, g \in BOOLEAN, y \in BOOLEAN :
          rx = [source |-> src,
                global |-> IF fromString THEN FALSE ELSE g,
                sticky |-> IF fromString THEN FALSE ELSE y,
                lastIndex |-> 0]
    /\ matchLog = <<>>

NextUrlMatches == \E url \in Urls : EvalUrlMatches(url)

(***************************************************************************)
(* allOf / anyOf.  A sub-predicate is given by what it does on the         *)
(* context: it passes, fails with a reason, or throws.                     *)
(***************************************************************************)
SubBehaviours ==
    {[kind |-> "pass", reason |-> ""],
     [kind |-> "fail", reason |-> "reason a"],
     [kind |-> "fail", reason |-> "reason b"],
     [kind |-> "throw", reason |-> ""]}

RECURSIVE PredicateLists(_)
PredicateLists(n) ==
    IF n = 0 THEN {<<>>}
    ELSE LET shorter == PredicateLists(n - 1)
         IN shorter \cup {Append(ps, p) : ps \in shorter, p \in SubBehaviours}

\* Array.prototype.join('; ')
RECURSIVE Join(_)
Join(reasons) ==
    IF Len(reasons) = 0 THEN <<>>
    ELSE IF Len(reasons) = 1 THEN <<reasons[1]>>
    ELSE <<reasons[1], "; ">> \o Join(Tail(reasons))

NotEvaluated == [kind |-> "none", passed |-> FALSE, reason |-> <<>>,
                 calls |-> <<>>, op |-> "none"]

\* allOf that puts a failing reason in front of the ones collected so far
CollectFailedReversed(failedReasons, p) ==
    IF p.kind # "pass" THEN <<p.reason>> \o failedReasons ELSE failedReasons

\* allOf: `if (!outcome.passed) failedReasons.push(outcome.reason)`
CollectFailed(failedReasons, p) ==
    IF p.kind # "pass" THEN Append(failedReasons, p.reason) ELSE failedReasons

\* allOf: the loop from predicates[i] on, and the return after it
RECURSIVE AllOfLoop(_, _, _, _)
AllOfLoop(predicates, i, failedReasons, calls) ==
    IF i > Len(predicates)
    THEN [kind |-> "returned",
          passed |-> Len(failedReasons) = 0,
          reason |-> Join(failedReasons),
          calls |-> calls, op |-> "allOf"]
    ELSE IF predicates[i].kind = "throw"
    THEN [NotEvaluated EXCEPT !.kind = "threw", !.calls = Append(calls, i),
                              !.op = "allOf"]
    ELSE AllOfLoop(predicates, i + 1, CollectFailed(failedReasons, predicates[i]),
                   Append(calls, i))

AllOf(predicates) == AllOfLoop(predicates, 1, <<>>, <<>>)

\* anyOf that goes on after a sub-predicate has passed
ReturnsAtPassNever(p) == FALSE

\* anyOf: `if (outcome.passed) return {passed: true, ...}`
ReturnsAtPass(p) == p.kind = "pass"

\* anyOf: the loop from predicates[i] on, and the return after it
RECURSIVE AnyOfLoop(_, _, _, _)
AnyOfLoop(predicates, i, allReasons, calls) ==
    IF i > Len(predicates)
    THEN [kind |-> "returned",
          passed |-> FALSE,
          reason |-> <<"none of ", Len(predicates), " predicates passed: ">>
                        \o Join(allReasons),
          calls |-> calls, op |-> "anyOf"]
    ELSE IF predicates[i].kind = "throw"
    THEN [NotEvaluated EXCEPT !.kind = "threw", !.calls = Append(calls, i),
                              !.op = "anyOf"]
    ELSE IF ReturnsAtPass(predicates[i])
    THEN [kind |-> "returned", passed |-> TRUE, reason |-> <<>>,
          calls |-> Append(calls, i), op |-> "anyOf"]
    ELSE AnyOfLoop(predicates, i + 1, Append(allReasons, predicates[i].reason),
                   Append(calls, i))

AnyOf(predicates) == AnyOfLoop(predicates, 1, <<>>, <<>>)

\* allOf(...subPredicates)(ctx)
EvalAllOf ==
    /\ combined' = AllOf(subPredicates)
    /\ UNCHANGED <<subPredicates, rx, matchLog>>
    /\ UNCHANGED notVerify

\* anyOf(...subPredicates)(ctx)
EvalAnyOf ==
    /\ combined' = AnyOf(subPredicates)
    /\ UNCHANGED <<subPredicates, rx, matchLog>>
    /\ UNCHANGED notVerify

InitCombinators ==
    /\ subPredicates \in PredicateLists(MaxSubPredicates)
    /\ combined = NotEvaluated

NextCombinators == EvalAllOf \/ EvalAnyOf

(***************************************************************************)
(*                    Captcha gating of the AgentRuntime                   *)
(*                                                                         *)
(* On a post-action snapshot the runtime inspects diagnostics.captcha.      *)
(* Confidence values are counted in steps of 1 / MaxConfidence.            *)
(***************************************************************************)

NoCaptcha == [present |-> FALSE]

NotGated == [ran |-> FALSE]

\* evidence: which of the four hit lists are non-empty
Evidences ==
    [iframe_src_hits : BOOLEAN, selector_hits : BOOLEAN,
     text_hits : BOOLEAN, url_hits : BOOLEAN]

CaptchaDiagnosticsSet ==
    {NoCaptcha} \cup
    {[present |-> TRUE, detected |-> d, confidence |-> c, evidence |-> e] :
        d \in BOOLEAN, c \in 0..MaxConfidence, e \in Evidences}

CaptchaPolicies == {"abort", "callback"}

\* Gating that treats a badge iframe like a challenge
IsPassiveEvidenceNever(e) == FALSE

\* Passive evidence: only iframe_src_hits is populated
IsPassiveEvidence(e) ==
    e.iframe_src_hits /\ ~e.selector_hits /\ ~e.text_hits /\ ~e.url_hits

\* AgentRuntime.isCaptchaDetected(snapshot)
IsCaptchaDetected(c, opts) ==
    /\ c.present
    /\ c.detected
    /\ ~IsPassiveEvidence(c.evidence)
    /\ c.confidence >= opts.minConfidence

\* The runtime gates the step on the snapshot it has just taken.
GateOnSnapshot ==
    /\ ~gate.ran
    /\ LET detected == IsCaptchaDetected(captcha, captchaOptions)
       IN gate' = [ran |-> TRUE,
                   detected |-> detected,
                   effect |-> IF ~detected THEN "proceed"
                              ELSE IF captchaOptions.policy = "abort"
                              THEN "CaptchaAbort"
                              ELSE "handler"]
    /\ UNCHANGED <<captcha, captchaOptions>>
    /\ UNCHANGED notCaptcha

InitCaptcha ==
    /\ captcha \in CaptchaDiagnosticsSet
    /\ captchaOptions \in [minConfidence : 0..MaxConfidence, policy : CaptchaPolicies]
    /\ gate = NotGated

NextCaptcha == GateOnSnapshot

(***************************************************************************)
(*                     AgentRuntime.scrollBy with verify                   *)
(*                                                                         *)
(* scrollBy reads the scroll position, dispatches a wheel event, polls the *)
(* position until it differs from the first reading by minDeltaPx or       *)
(* timeoutMs has passed, then (jsFallback) scrolls by script and reads     *)
(* the position once more.  Positions are counted in steps of minDeltaPx   *)
(* size, time in ticks of pollMs.                                          *)
(***************************************************************************)

ScrollPollMs == 1

WheelEffects == (0 - MaxScrollTop)..MaxScrollTop

\* The page cannot scroll past its ends.
ClipScroll(y) == IF y < 0 THEN 0 ELSE IF y > MaxScrollTop THEN MaxScrollTop ELSE y

\* A verification that takes a scroll up for no scroll
ScrollPassedDownOnly(before, after, minDeltaPx) == after - before >= minDeltaPx

\* |after - before| >= minDeltaPx
ScrollPassed(before, after, minDeltaPx) ==
    (IF after >= before THEN after - before ELSE before - after) >= minDeltaPx

ScrollVerification(passed) == [kind |-> "scroll", passed |-> passed]

\* scrollBy returns `passed` and emits its verification event.
ScrollReturns(passed) ==
    /\ scrollPc' = "done"
    /\ scrollResult' = passed
    /\ scrollEvents' = Append(scrollEvents, ScrollVerification(passed))

\* The position is read, then the wheel event is dispatched.
ScrollDispatchWheel(eff) ==
    /\ scrollPc = "start"
    /\ scrollBefore' = scrollTop
    /\ wheelEffect' = eff
    /\ wheelPending' = (eff # 0)
    /\ scrollClock' = 0
    /\ scrollPc' = "top"
    /\ UNCHANGED <<scrollOpts, scrollTop, scrollObserved, scrollResult, scrollEvents>>
    /\ UNCHANGED notScroll

\* The page scrolls in answer to the wheel event, at once or some polls later.
PageScrolls ==
    /\ wheelPending
    /\ scrollPc # "done"
    /\ scrollTop' = ClipScroll(scrollTop + wheelEffect)
    /\ wheelPending' = FALSE
    /\ UNCHANGED <<scrollOpts, scrollPc, scrollBefore, wheelEffect, scrollClock,
                   scrollObserved, scrollResult, scrollEvents>>
    /\ UNCHANGED notScroll

\* The top of the polling loop: the deadline is tested before each reading.
ScrollLoopTop ==
    /\ scrollPc = "top"
    /\ IF scrollClock < scrollOpts.timeoutMs
       THEN /\ scrollPc' = "read"
            /\ UNCHANGED <<scrollResult, scrollEvents>>
       ELSE IF scrollOpts.jsFallback
       THEN /\ scrollPc' = "fallback"
            /\ UNCHANGED <<scrollResult, scrollEvents>>
       ELSE ScrollReturns(FALSE)
    /\ UNCHANGED <<scrollOpts, scrollTop, scrollBefore, wheelEffect, wheelPending,
                   scrollClock, scrollObserved>>
    /\ UNCHANGED notScroll

\* One reading of the position inside the polling loop
ScrollRead ==
    /\ scrollPc = "read"
    /\ scrollObserved' = scrollObserved \cup {[after |-> scrollTop, phase |-> "poll"]}
    /\ IF ScrollPassed(scrollBefore, scrollTop, scrollOpts.minDeltaPx)
       THEN ScrollReturns(TRUE)
       ELSE /\ scrollPc' = "sleep"
            /\ UNCHANGED <<scrollResult, scrollEvents>>
    /\ UNCHANGED <<scrollOpts, scrollTop, scrollBefore, wheelEffect, wheelPending,
                   scrollClock>>
    /\ UNCHANGED notScroll

\* sleep(pollMs)
ScrollSleepDone ==
    /\ scrollPc = "sleep"
    /\ scrollClock' = scrollClock + ScrollPollMs
    /\ scrollPc' = "top"
    /\ UNCHANGED <<scrollOpts, scrollTop, scrollBefore, wheelEffect, wheelPending,
                   scrollObserved, scrollResult, scrollEvents>>
    /\ UNCHANGED notScroll

\* The fallback: window.scrollBy by script, which the page follows or not.
ScrollJsFallback(eff) ==
    /\ scrollPc = "fallback"
    /\ scrollTop' = ClipScroll(scrollTop + eff)
    /\ scrollPc' = "reverify"
    /\ UNCHANGED <<scrollOpts, scrollBefore, wheelEffect, wheelPending, scrollClock,
                   scrollObserved, scrollResult, scrollEvents>>
    /\ UNCHANGED notScroll

\* The reading after the fallback decides.
ScrollReverify ==
    /\ scrollPc = "reverify"
    /\ scrollObserved' =
           scrollObserved \cup {[after |-> scrollTop, phase |-> "fallback"]}
    /\ ScrollReturns(ScrollPassed(scrollBefore, scrollTop, scrollOpts.minDeltaPx))
    /\ UNCHANGED <<scrollOpts, scrollTop, scrollBefore, wheelEffect, wheelPending,
                   scrollClock>>
    /\ UNCHANGED notScroll

InitScroll ==
    /\ scrollOpts \in [minDeltaPx : 1..MaxMinDelta,
                       timeoutMs : 1..MaxScrollTimeout,
                       jsFallback : BOOLEAN]
    /\ scrollPc = "start"
    /\ scrollTop \in 0..MaxScrollTop
    /\ scrollBefore = 0
    /\ wheelEffect = 0
    /\ wheelPending = FALSE
    /\ scrollClock = 0
    /\ scrollObserved = {}
    /\ scrollResult = "pending"
    /\ scrollEvents = <<>>

NextScroll ==
    \/ \E eff \in WheelEffects : ScrollDispatchWheel(eff)
    \/ PageScrolls
    \/ ScrollLoopTop
    \/ ScrollRead
    \/ ScrollSleepDone
    \/ \E eff \in WheelEffects : ScrollJsFallback(eff)
    \/ ScrollReverify

(***************************************************************************)
(*                          PredicateBrowserAgent                          *)
(*                                                                         *)
(* run() hands the steps to step(), which hands them to the runner         *)
(* (RuntimeAgent.runStep).  The runner may call the vision executor when   *)
(* the step it gets has visionExecutorEnabled.                             *)
(***************************************************************************)

NoStep == [index |-> 0, visionExecutorEnabled |-> FALSE]

\* RuntimeStep: what matters here is its flag visionExecutorEnabled
RuntimeSteps == UNION {[1..n -> BOOLEAN] : n \in 0..MaxAgentSteps}

\* step(): `Math.max(0, this.config.vision?.maxVisionCalls ?? 0)`
EffectiveMaxVisionCalls == IF agentConfig.maxVisionCalls > 0
                           THEN agentConfig.maxVisionCalls ELSE 0

\* step(): the test that switches the vision executor off for the step
VisionBudgetSpent ==
    /\ agentConfig.enabled
    /\ EffectiveMaxVisionCalls > 0
    /\ visionCallsUsed >= EffectiveMaxVisionCalls

\* step(): the step handed to runner.runStep
StepForRunner(i) ==
    [index |-> i,
     visionExecutorEnabled |->
         IF VisionBudgetSpent THEN FALSE ELSE runOpts.steps[i]]

\* run() that goes on after a failed step
StopsAfterNever(stopOnFailure, ok) == FALSE

\* run(): `if (stopOnFailure && !out.ok) return false`
StopsAfter(stopOnFailure, ok) == stopOnFailure /\ ~ok

\* vision-executor calls made so far by the runner
RECURSIVE VisionCallsOf(_)
VisionCallsOf(l) ==
    IF l = <<>> THEN 0 ELSE l[1].visionCalls + VisionCallsOf(Tail(l))

\* `Math.max(0, this.config.historyLastN ?? 0)`
EffectiveHistoryLastN == IF agentConfig.historyLastN > 0
                         THEN agentConfig.historyLastN ELSE 0

\* a history that is never cut
KeepAll(h, n) == h

\* `if (history.length > n) history = history.slice(history.length - n)`
KeepLast(h, n) == IF Len(h) > n THEN SubSeq(h, Len(h) - n + 1, Len(h)) ELSE h

\* recordHistory(stepGoal, ok): the history afterwards
RecordHistory(h, entry) ==
    IF EffectiveHistoryLastN <= 0 THEN h
    ELSE KeepLast(Append(h, entry), EffectiveHistoryLastN)

\* historySummaryProvider: the entries put into the prompt
HistorySlice ==
    IF EffectiveHistoryLastN <= 0 THEN <<>>
    ELSE SubSeq(history,
                (IF Len(history) > EffectiveHistoryLastN
                 THEN Len(history) - EffectiveHistoryLastN ELSE 0) + 1,
                Len(history))

\* run() is called: the loop reaches its first `await this.step(...)`.
AgentRun ==
    /\ agentPc = "idle"
    /\ IF runOpts.steps = <<>>
       THEN /\ agentPc' = "done"
            /\ runResult' = "true"
            /\ UNCHANGED <<currentStep, agentStarted>>
       ELSE /\ agentPc' = "inStep"
            /\ currentStep' = StepForRunner(1)
            /\ agentStarted' = <<1>>
            /\ UNCHANGED runResult
    /\ UNCHANGED <<agentConfig, runOpts, visionCallsUsed, agentLog, history>>
    /\ UNCHANGED notAgent

\* runner.runStep resolves: step() records and returns, the loop of run()
\* returns or reaches the next `await this.step(...)`.
RunStepResolves(ok, visionCalls) ==
    /\ agentPc = "inStep"
    /\ visionCalls > 0 => currentStep.visionExecutorEnabled
    /\ agentLog' = Append(agentLog, [index |-> currentStep.index,
                                     ok |-> ok,
                                     visionExecutorEnabled |->
                                         currentStep.visionExecutorEnabled,
                                     visionCalls |-> visionCalls])
    /\ history' = RecordHistory(history, [index |-> currentStep.index, ok |-> ok])
    /\ IF StopsAfter(runOpts.stopOnFailure, ok)
       THEN /\ agentPc' = "done"
            /\ runResult' = "false"
            /\ UNCHANGED <<currentStep, agentStarted>>
       ELSE IF currentStep.index = Len(runOpts.steps)
       THEN /\ agentPc' = "done"
            /\ runResult' = "true"
            /\ UNCHANGED <<currentStep, agentStarted>>
       ELSE /\ currentStep' = StepForRunner(currentStep.index + 1)
            /\ agentStarted' = Append(agentStarted, currentStep.index + 1)
            /\ UNCHANGED <<agentPc, runResult>>
    /\ UNCHANGED <<agentConfig, runOpts, visionCallsUsed>>
    /\ UNCHANGED notAgent

\* runner.runStep rejects: the error leaves step() and run().
RunStepRejects ==
    /\ agentPc = "inStep"
    /\ agentPc' = "done"
    /\ runResult' = "thrown"
    /\ UNCHANGED <<agentConfig, runOpts, visionCallsUsed, currentStep,
                   agentStarted, agentLog, history>>
    /\ UNCHANGED notAgent

InitAgent ==
    /\ agentConfig \in [enabled : BOOLEAN, maxVisionCalls : 0..MaxVisionCalls,
                        historyLastN : (0 - 1)..MaxHistoryLastN]
    /\ runOpts \in [steps : RuntimeSteps, stopOnFailure : BOOLEAN]
    /\ visionCallsUsed = 0
    /\ agentPc = "idle"
    /\ currentStep = NoStep
    /\ agentStarted = <<>>
    /\ agentLog = <<>>
    /\ runResult = "pending"
    /\ history = <<>>

NextAgent ==
    \/ AgentRun
    \/ \E ok \in BOOLEAN, v \in 0..MaxVisionAttempts : RunStepResolves(ok, v)
    \/ RunStepRejects

(***************************************************************************)
(*                  SentienceContext._formatSnapshotForLLM                 *)
(*                                                                         *)
(* Strings are sequences of one-character strings.                         *)
(***************************************************************************)

NotFormatted == <<[id |-> 0 - 1]>>

Undefined == 0 - 1     \* doc_y / group_index that the gateway did not set

NoHref == [defined |-> FALSE]

INTERACTIVE_ROLES ==
    {"button", "link", "textbox", "searchbox", "combobox", "checkbox", "radio",
     "slider", "tab", "menuitem", "option", "switch", "cell", "a", "input",
     "select", "textarea"}

\* roles of the elements of the model; "BUTTON" lower-cases to "button"
Roles == {"button", "BUTTON", "generic"}

ToLowerCase(role) == IF role = "BUTTON" THEN "button" ELSE role

IsInteractive(el) == ToLowerCase(el.role) \in INTERACTIVE_ROLES

Slice(s, n) == SubSeq(s, 1, IF n < Len(s) THEN n ELSE Len(s))

\* a[i] - b[i] of the first position where the keys differ is negative
LexLess(a, b) ==
    \E i \in 1..Len(a) :
        /\ a[i] < b[i]
        /\ \A j \in 1..(i - 1) : a[j] = b[j]

RECURSIVE InsertKeyed(_, _)
InsertKeyed(sorted, x) ==
    IF sorted = <<>> THEN <<x>>
    ELSE IF LexLess(x.key, sorted[1].key) THEN <<x>> \o sorted
    ELSE <<sorted[1]>> \o InsertKeyed(Tail(sorted), x)

RECURSIVE SortKeyed(_)
\* Array.prototype.sort (stable) of [key, el] pairs, ascending by key
SortKeyed(s) ==
    IF s = <<>> THEN <<>>
    ELSE InsertKeyed(SortKeyed(SubSeq(s, 1, Len(s) - 1)), s[Len(s)])

Unkeyed(s) == [i \in 1..Len(s) |-> s[i].el]

\* `(b.importance || 0) - (a.importance || 0)`
ByImportanceKey(el) == <<0 - el.importance>>

\* an order of the group that puts its last member first
ByGroupIndexKeyReversed(el) ==
    <<0 - (IF el.group_index = Undefined THEN 999 ELSE el.group_index)>>

\* `(a.group_index ?? 999) - (b.group_index ?? 999)`
ByGroupIndexKey(el) ==
    <<IF el.group_index = Undefined THEN 999 ELSE el.group_index>>

\* getYPosition: doc_y, or bbox.y when doc_y is not set
GetYPosition(el) == IF el.doc_y # Undefined THEN el.doc_y ELSE el.bbox.y

\* the comparator of elementsByPosition
ByPositionKey(el) == <<GetYPosition(el), 0 - el.importance>>

Infinity == 1000000

\* a rank computed from the importance alone
RankKeyImportanceOnly(el) == <<0 - el.importance>>

\* the comparator of dgElementsForRank: (doc_y, bbox.y, bbox.x, -importance)
RankKey(el) ==
    <<IF el.doc_y # Undefined THEN el.doc_y ELSE Infinity,
      el.bbox.y, el.bbox.x, 0 - el.importance>>

\* Array.prototype.sort with a comparator that orders by keys[i], the key of s[i]
SortedBy(s, keys) == Unkeyed(SortKeyed([i \in 1..Len(s) |-> [key |-> keys[i], el |-> s[i]]]))

\* interactiveElements, sorted by importance
InteractiveElements(sn) ==
    LET kept == SelectSeq(sn.elements, IsInteractive)
    IN SortedBy(kept, [i \in 1..Len(kept) |-> ByImportanceKey(kept[i])])

InDominantGroup(el) == el.in_dominant_group = "true"

\* dominantGroupElements / dgElementsForRank before they are sorted
DominantGroupOf(sn) ==
    LET interactive == InteractiveElements(sn)
        flagged == SelectSeq(interactive, InDominantGroup)
        SameKey(el) == el.group_key = sn.dominant_group_key
    IN IF flagged = <<>> /\ sn.dominant_group_key # "null"
       THEN SelectSeq(interactive, SameKey)
       ELSE flagged

RECURSIVE PushNew(_, _)
\* the loop `if (!selectedIds.has(el.id)) { selectedIds.add(el.id); push }`
PushNew(selected, candidates) ==
    IF candidates = <<>> THEN selected
    ELSE PushNew(IF \E i \in 1..Len(selected) : selected[i].id = candidates[1].id
                 THEN selected
                 ELSE Append(selected, candidates[1]),
                 Tail(candidates))

\* selectedElements: the 3-way selection
SelectedElements(sn, sel) ==
    LET interactive == InteractiveElements(sn)
        byImportance == PushNew(<<>>, Slice(interactive, sel.byImportance))
        group == DominantGroupOf(sn)
        dominant == SortedBy(group, [i \in 1..Len(group) |-> ByGroupIndexKey(group[i])])
        withGroup == PushNew(byImportance, Slice(dominant, sel.fromDominantGroup))
        elementsByPosition ==
            SortedBy(interactive,
                     [i \in 1..Len(interactive) |-> ByPositionKey(interactive[i])])
    IN PushNew(withGroup, Slice(elementsByPosition, sel.byPosition))

\* rankInGroupMap.get(el.id); Undefined when the map has no entry
RankInGroup(sn, id) ==
    LET group == DominantGroupOf(sn)
        ranked == SortedBy(group, [i \in 1..Len(group) |-> RankKey(group[i])])
        at == {i \in 1..Len(ranked) : ranked[i].id = id}
    IN IF at = {} THEN Undefined
       ELSE (CHOOSE i \in at : \A j \in at : j <= i) - 1

\* ---- strings ----
Whitespace == {" ", "\n"}

RECURSIVE CollapseWhitespace(_)
\* name.replace(/\s+/g, ' ')
CollapseWhitespace(s) ==
    IF s = <<>> THEN <<>>
    ELSE IF s[1] \in Whitespace
    THEN IF Len(s) > 1 /\ s[2] \in Whitespace
         THEN CollapseWhitespace(Tail(s))
         ELSE <<" ">> \o CollapseWhitespace(Tail(s))
    ELSE <<s[1]>> \o CollapseWhitespace(Tail(s))

\* String.prototype.trim of a string whose whitespace is collapsed
Trim(s) ==
    LET from == IF s # <<>> /\ s[1] = " " THEN 2 ELSE 1
        to == IF s # <<>> /\ s[Len(s)] = " " THEN Len(s) - 1 ELSE Len(s)
    IN SubSeq(s, from, to)

\* `if (name.length > 30) name = name.slice(0, 27) + '...'`
Truncate(name) ==
    IF Len(name) > 30 THEN SubSeq(name, 1, 27) \o <<".", ".", ".">> ELSE name

Digits == <<"0", "1", "2", "3", "4", "5", "6", "7", "8", "9">>

RECURSIVE NumberToString(_)
\* String(n) of a non-negative integer
NumberToString(n) ==
    IF n < 10 THEN <<Digits[n + 1]>>
    ELSE NumberToString(n \div 10) \o <<Digits[(n % 10) + 1]>>

RECURSIVE SplitBy(_, _)
\* String.prototype.split(sep) for a one-character separator
SplitBy(s, sep) ==
    IF \A i \in 1..Len(s) : s[i] # sep THEN <<s>>
    ELSE LET k == CHOOSE i \in 1..Len(s) :
                      s[i] = sep /\ \A j \in 1..(i - 1) : s[j] # sep
         IN <<SubSeq(s, 1, k - 1)>> \o SplitBy(SubSeq(s, k + 1, Len(s)), sep)

NonEmpty(s) == s # <<>>

Item == <<"i", "t", "e", "m">>

\* the hostname that `new URL(href)` finds in an http(s) URL
Hostname(body) == SplitBy(body, "/")[1]

\* `new URL(href)` throws: no host, or a forbidden host code point
UrlThrows(body) ==
    \/ Hostname(body) = <<>>
    \/ \E i \in 1..Len(Hostname(body)) : Hostname(body)[i] = "|"

\* _compressHref
CompressHref(href) ==
    IF ~href.defined \/ (~href.absolute /\ href.body = <<>>) THEN <<>>
    ELSE IF href.absolute
    THEN IF UrlThrows(href.body) THEN Item
         ELSE LET parts == SplitBy(Hostname(href.body), ".")
              IN IF Len(parts) >= 2 THEN Slice(parts[Len(parts) - 1], 10)
                 ELSE Slice(Hostname(href.body), 10)
    ELSE LET segments == SelectSeq(SplitBy(href.body, "/"), NonEmpty)
         IN IF Len(segments) > 0 THEN Slice(segments[Len(segments)], 10)
            ELSE Item

\* `el.href` is truthy
HasHref(el) == el.href.defined /\ (el.href.absolute \/ el.href.body # <<>>)

RoleString(role) ==
    CASE role = "button" -> <<"b", "u", "t", "t", "o", "n">>
      [] role = "BUTTON" -> <<"B", "U", "T", "T", "O", "N">>
      [] role = "link" -> <<"l", "i", "n", "k">>
      [] OTHER -> <<"g", "e", "n", "e", "r", "i", "c">>

RECURSIVE JoinFields(_)
\* the template `${a}|${b}|...`
JoinFields(fields) ==
    IF Len(fields) = 1 THEN fields[1]
    ELSE fields[1] \o <<"|">> \o JoinFields(Tail(fields))

\* `let inDg = el.in_dominant_group`, with the group_key fallback
LineInDg(sn, el) ==
    IF el.in_dominant_group = "undefined" /\ sn.dominant_group_key # "null"
    THEN el.group_key = sn.dominant_group_key
    ELSE el.in_dominant_group = "true"

\* one iteration of the loop `for (const el of selectedElements)`
FormatLine(sn, el) ==
    LET role == IF HasHref(el) THEN "link" ELSE el.role
        name == Truncate(Trim(CollapseWhitespace(el.text)))
        docY == IF el.doc_y = Undefined THEN 0 ELSE el.doc_y
        docYq == IF docY # 0 THEN (docY + 100) \div 200 ELSE 0
        inDg == LineInDg(sn, el)
        rank == RankInGroup(sn, el.id)
        ordVal == IF inDg /\ rank # Undefined THEN NumberToString(rank) ELSE <<"-">>
        href == CompressHref(el.href)
    IN [id |-> el.id,
        role |-> role,
        name |-> name,
        ord |-> ordVal,
        dg |-> inDg,
        href |-> href,
        line |-> JoinFields(<<NumberToString(el.id), RoleString(role), name,
                              NumberToString(el.importance),
                              IF el.is_primary THEN <<"1">> ELSE <<"0">>,
                              NumberToString(docYq), ordVal,
                              IF inDg THEN <<"1">> ELSE <<"0">>, href>>)]

\* _formatSnapshotForLLM(snap), before lines.join('\n')
FormatSnapshotForLLM(sn, sel) ==
    LET selected == SelectedElements(sn, sel)
    IN [i \in 1..Len(selected) |-> FormatLine(sn, selected[i])]

\* ---- the snapshots of the model ----
PlainBBox == [x |-> 0, y |-> 0]

\* makeElement: an element with the defaults of the fields not given
Element(id, role, importance, position, group, text, href) ==
    [id |-> id, role |-> role, text |-> text, importance |-> importance,
     is_primary |-> FALSE, doc_y |-> position.doc_y, bbox |-> position.bbox,
     in_dominant_group |-> group.in_dominant_group,
     group_key |-> group.group_key, group_index |-> group.group_index,
     href |-> href]

DominantKey == "g1"

\* membership of the dominant group as a gateway reports it: with
\* in_dominant_group on every element, or (older gateways) with group_key only
Groups(populated, indexes) ==
    {[in_dominant_group |-> IF populated THEN "false" ELSE "undefined",
      group_key |-> "g2", group_index |-> Undefined]} \cup
    {[in_dominant_group |-> IF populated THEN "true" ELSE "undefined",
      group_key |-> DominantKey, group_index |-> gi] : gi \in indexes}

\* doc_y set, or not set and bbox.y in its place
Positions ==
    {[doc_y |-> y, bbox |-> PlainBBox] : y \in 0..MaxDocY} \cup
    {[doc_y |-> Undefined, bbox |-> PlainBBox]}

\* positions that differ in doc_y, bbox.y or bbox.x
RankPositions ==
    {[doc_y |-> y, bbox |-> [x |-> bx, y |-> by]] :
        y \in {0, Undefined}, by \in 0..MaxDocY, bx \in 0..MaxDocY}

NonInteractive(populated) ==
    {[in_dominant_group |-> IF populated THEN "true" ELSE "undefined",
      group_key |-> DominantKey, group_index |-> 0]}

\* the element with identifier `id` of a snapshot of the selection model
SelectionElements(id) ==
    {Element(id, "generic", 0, [doc_y |-> 0, bbox |-> PlainBBox], g, <<>>, NoHref) :
        g \in NonInteractive(TRUE)} \cup
    {Element(id, "button", imp, pos, g, <<>>, NoHref) :
        imp \in 0..MaxImportance, pos \in Positions,
        g \in Groups(TRUE, 0..MaxGroupIndex)}

\* the element with identifier `id` of a snapshot of the ordinal model
OrdinalElements(id, populated) ==
    {Element(id, "generic", 0, [doc_y |-> 0, bbox |-> PlainBBox], g, <<>>, NoHref) :
        g \in NonInteractive(populated)} \cup
    {Element(id, "button", 0, [doc_y |-> 0, bbox |-> PlainBBox], g, <<>>, NoHref) :
        g \in Groups(populated, {})} \cup
    {Element(id, "button", imp, pos, g, <<>>, NoHref) :
        imp \in 0..MaxImportance, pos \in RankPositions,
        g \in Groups(populated, {0}) \ Groups(populated, {})}

RECURSIVE ElementLists(_, _)
\* the lists of exactly n elements with the identifiers 1..n
ElementLists(elementsOf, n) ==
    IF n = 0 THEN {<<>>}
    ELSE {Append(els, e) : els \in ElementLists(elementsOf, n - 1), e \in elementsOf[n]}

\* snapshots of up to MaxElements elements
SnapshotsOf(elementsOf) ==
    {[elements |-> els, dominant_group_key |-> DominantKey] :
        els \in UNION {ElementLists(elementsOf, n) : n \in 0..MaxElements}}

Selectors ==
    [byImportance : 0..MaxSelect, fromDominantGroup : 0..MaxSelect,
     byPosition : 0..MaxSelect]

\* selections that take none or MaxSelect of the group and of the page top
OrdinalSelectors ==
    {s \in Selectors : /\ s.fromDominantGroup \in {0, MaxSelect}
                       /\ s.byPosition \in {0, MaxSelect}}

InitSelection ==
    /\ snap \in SnapshotsOf([id \in 1..MaxElements |-> SelectionElements(id)])
    /\ selector \in Selectors
    /\ formatted = NotFormatted

InitOrdinal ==
    /\ \E populated \in BOOLEAN :
        snap \in SnapshotsOf([id \in 1..MaxElements |-> OrdinalElements(id, populated)])
    /\ selector \in OrdinalSelectors
    /\ formatted = NotFormatted

RECURSIVE SeqsOver(_, _)
\* the strings of up to n characters of `chars`
SeqsOver(chars, n) ==
    IF n = 0 THEN {<<>>}
    ELSE LET shorter == SeqsOver(chars, n - 1)
         IN shorter \cup {Append(w, c) : w \in shorter, c \in chars}

TextChars == {"a", " ", "\n", "|"}

PadLengths == {0, 27, 28, 29, 30}

\* texts of up to MaxTextLen free characters followed by a run of letters
Texts ==
    {s \o [i \in 1..n |-> "a"] : s \in SeqsOver(TextChars, MaxTextLen), n \in PadLengths}

HrefChars == {"a", "/", ".", "|"}

\* no href, "https://" followed by a body, or a relative href
Hrefs ==
    {NoHref} \cup
    {[defined |-> TRUE, absolute |-> abs, body |-> b] :
        abs \in BOOLEAN, b \in SeqsOver(HrefChars, MaxHrefLen)}

InitFormatLine ==
    /\ snap \in {[elements |-> <<Element(1, role, 1, [doc_y |-> 0, bbox |-> PlainBBox],
                                         g, text, href)>>,
                  dominant_group_key |-> DominantKey] :
                     role \in {"button", "BUTTON"}, g \in Groups(TRUE, {0}),
                     text \in Texts, href \in Hrefs}
    /\ selector = [byImportance |-> 1, fromDominantGroup |-> 0, byPosition |-> 0]
    /\ formatted = NotFormatted

\* membership as a gateway can report it per element: flagged, flagged
\* not, or not flagged at all, in the dominant group's key or in another
MixedGroups ==
    [in_dominant_group : {"true", "false", "undefined"},
     group_key : {DominantKey, "g2"}, group_index : {Undefined}]

\* snapshots whose elements need not agree on how membership is reported
InitDominantFlag ==
    /\ snap \in
        {[elements |-> els, dominant_group_key |-> key] :
            els \in UNION {ElementLists(
                               [id \in 1..MaxElements |->
                                   {Element(id, "button", 0,
                                            [doc_y |-> 0, bbox |-> PlainBBox],
                                            g, <<>>, NoHref) : g \in MixedGroups}],
                               n) : n \in 0..MaxElements},
            key \in {DominantKey, "null"}}
    /\ selector = [byImportance |-> MaxElements, fromDominantGroup |-> 0,
                   byPosition |-> 0]
    /\ formatted = NotFormatted

InitFormatter == InitSelection \/ InitOrdinal \/ InitFormatLine \/ InitDominantFlag

\* The formatter is called on the snapshot.
Format ==
    /\ formatted = NotFormatted
    /\ formatted' = FormatSnapshotForLLM(snap, selector)
    /\ UNCHANGED <<snap, selector>>
    /\ UNCHANGED notFormatter

NextFormatter == Format

(***************************************************************************)
(* TokenUsageCollector (src/unnamed/part_014:691-744)                      *)
(*                                                                         *)
(* An optional field of a provider response is a sequence of at most one   *)
(* value: <<>> is a field that is missing (or not a number).               *)
(***************************************************************************)
TokenRoles == {"executor", "vision_executor"}

\* what a provider can put into promptTokens, completionTokens, totalTokens
TokenFields == {<<>>} \cup {<<n>> : n \in (0 - 1)..MaxTokens}

ModelNames == {<<>>, <<"">>, <<"gpt">>}

Responses ==
    [promptTokens : TokenFields, completionTokens : TokenFields,
     totalTokens : TokenFields, modelName : ModelNames]

NoResponse ==
    [promptTokens |-> <<>>, completionTokens |-> <<>>, totalTokens |-> <<>>,
     modelName |-> <<>>]

ZeroTotals == [calls |-> 0, promptTokens |-> 0, completionTokens |-> 0, totalTokens |-> 0]

\* {} as a Record<string, TokenUsageTotals>
NoTotals == [k \in {} |-> ZeroTotals]

\* `typeof f === 'number' ? f : 0`
NumberOrZero(f) == IF Len(f) = 1 THEN f[1] ELSE 0

\* a missing totalTokens counted as 0
TotalTokensOrZero(resp) == NumberOrZero(resp.totalTokens)

\* tt: `typeof resp?.totalTokens === 'number' ? resp.totalTokens : pt + ct`
TotalTokensOf(resp) ==
    IF Len(resp.totalTokens) = 1 THEN resp.totalTokens[1]
    ELSE NumberOrZero(resp.promptTokens) + NumberOrZero(resp.completionTokens)

\* Math.max(0, n)
MaxZero(n) == IF n > 0 THEN n ELSE 0

\* `String(resp?.modelName ?? 'unknown') || 'unknown'`
ModelKey(resp) ==
    IF Len(resp.modelName) = 1 /\ resp.modelName[1] # "" THEN resp.modelName[1]
    ELSE "unknown"

\* dst[key] ?? zero totals
TotalsAt(dst, key) == IF key \in DOMAIN dst THEN dst[key] ELSE ZeroTotals

\* bump(dst, key) of record()
Bump(dst, key, resp) ==
    LET cur == TotalsAt(dst, key)
        new == [calls |-> cur.calls + 1,
                promptTokens |-> cur.promptTokens + MaxZero(NumberOrZero(resp.promptTokens)),
                completionTokens |->
                    cur.completionTokens + MaxZero(NumberOrZero(resp.completionTokens)),
                totalTokens |-> cur.totalTokens + MaxZero(TotalTokensOf(resp))]
    IN [k \in DOMAIN dst \cup {key} |-> IF k = key THEN new ELSE dst[k]]

\* collector.record(role, resp)
Record(role, resp) ==
    /\ usageCalls < MaxRecords
    /\ usageCalls' = usageCalls + 1
    /\ byRole' = Bump(byRole, role, resp)
    /\ byModel' = Bump(byModel, ModelKey(resp), resp)
    /\ usageOp' = [op |-> "record", role |-> role, resp |-> resp]
    /\ usageBefore' = [byRole |-> byRole, byModel |-> byModel]
    /\ UNCHANGED notTokens

\* collector.reset()
Reset ==
    /\ usageOp.op = "record"
    /\ byRole' = NoTotals
    /\ byModel' = NoTotals
    /\ usageOp' = [op |-> "reset", role |-> "executor", resp |-> NoResponse]
    /\ usageBefore' = [byRole |-> byRole, byModel |-> byModel]
    /\ UNCHANGED <<usageCalls, notTokens>>

\* summary().total: the sum over the roles
RECURSIVE SumTotals(_, _)
SumTotals(src, keys) ==
    IF keys = {} THEN ZeroTotals
    ELSE LET k == CHOOSE x \in keys : TRUE
             rest == SumTotals(src, keys \ {k})
         IN [calls |-> rest.calls + src[k].calls,
             promptTokens |-> rest.promptTokens + src[k].promptTokens,
             completionTokens |-> rest.completionTokens + src[k].completionTokens,
             totalTokens |-> rest.totalTokens + src[k].totalTokens]

Summary == SumTotals(byRole, DOMAIN byRole)

InitTokens ==
    /\ byRole = NoTotals
    /\ byModel = NoTotals
    /\ usageOp = [op |-> "none", role |-> "executor", resp |-> NoResponse]
    /\ usageBefore = [byRole |-> NoTotals, byModel |-> NoTotals]
    /\ usageCalls = 0

NextTokens ==
    \/ \E role \in TokenRoles, resp \in Responses : Record(role, resp)
    \/ Reset

(***************************************************************************)
(* BrowserUseAdapter.createBackend (src/unnamed/part_009:205-235)          *)
(*                                                                         *)
(* A call runs to its `await sessionAny.getOrCreateCdpSession()` in one    *)
(* step and from the answer to its return in another; other calls can run  *)
(* in between.  Backend instances are numbered in order of construction.   *)
(***************************************************************************)
NoBackend == 0

BackendCallers == 1..MaxBackendCalls

\* createBackend() up to the await: the cached backend, the missing-method
\* error, or the request for a CDP session
CreateBackendCall(c) ==
    /\ backendCalls[c].pc = "idle"
    /\ IF adapterBackend # NoBackend
       THEN /\ backendCalls' =
                [backendCalls EXCEPT ![c] = [pc |-> "returned", backend |-> adapterBackend]]
            /\ UNCHANGED sessionCalls
       ELSE IF ~sessionHasApi
       THEN /\ backendCalls' =
                [backendCalls EXCEPT ![c] = [pc |-> "thrown", backend |-> NoBackend]]
            /\ UNCHANGED sessionCalls
       ELSE /\ backendCalls' =
                [backendCalls EXCEPT ![c] = [pc |-> "awaiting", backend |-> NoBackend]]
            /\ sessionCalls' = sessionCalls + 1
    /\ UNCHANGED <<sessionHasApi, adapterBackend, adapterTransport, backendsMade,
                   notAdapter>>

\* getOrCreateCdpSession() resolved: a new transport and a new backend are
\* constructed and stored
CreateBackendResume(c) ==
    /\ backendCalls[c].pc = "awaiting"
    /\ backendsMade' = backendsMade + 1
    /\ adapterTransport' = backendsMade + 1
    /\ adapterBackend' = backendsMade + 1
    /\ backendCalls' =
        [backendCalls EXCEPT ![c] = [pc |-> "returned", backend |-> backendsMade + 1]]
    /\ UNCHANGED <<sessionHasApi, sessionCalls, notAdapter>>

\* getOrCreateCdpSession() rejected: the call fails, nothing is stored
CreateBackendRejects(c) ==
    /\ backendCalls[c].pc = "awaiting"
    /\ backendCalls' =
        [backendCalls EXCEPT ![c] = [pc |-> "thrown", backend |-> NoBackend]]
    /\ UNCHANGED <<sessionHasApi, adapterBackend, adapterTransport, sessionCalls,
                   backendsMade, notAdapter>>

InitAdapter ==
    /\ sessionHasApi \in BOOLEAN
    /\ adapterBackend = NoBackend
    /\ adapterTransport = NoBackend
    /\ backendCalls = [c \in BackendCallers |-> [pc |-> "idle", backend |-> NoBackend]]
    /\ sessionCalls = 0
    /\ backendsMade = 0

NextAdapter ==
    \E c \in BackendCallers :
        \/ CreateBackendCall(c)
        \/ CreateBackendResume(c)
        \/ CreateBackendRejects(c)

(***************************************************************************)
(* ElementQuery (src/src/asserts/query.ts)                                 *)
(*                                                                         *)
(* A field that is not set is "undefined", a field set to null is "null":  *)
(* `!==` between two such fields is inequality of the two strings.  The    *)
(* queries of the model leave text, name, textContains, hrefContains,      *)
(* inViewport and occluded unset, so these filters let every element pass. *)
(***************************************************************************)
NotQueried == <<0 - 1>>

\* E(options)
E(role, group, inDominantGroup) ==
    [role |-> role, group |-> group, inDominantGroup |-> inDominantGroup,
     groupIndex |-> Undefined, fromDominantList |-> FALSE]

\* inDominantList().nth(index)
Nth(index) ==
    [role |-> "undefined", group |-> "undefined", inDominantGroup |-> "undefined",
     groupIndex |-> index, fromDominantList |-> TRUE]

\* `element.group_key !== snapshot.dominant_group_key`
DiffersFromDominant(el, sn) == el.group_key # sn.dominant_group_key

\* ElementQuery.matches(element, snapshot) for a snapshot that is given
Matches(q, el, sn) ==
    /\ q.role # "undefined" => el.role = q.role
    /\ q.group # "undefined" => el.group_key = q.group
    /\ q.inDominantGroup = "true" => ~DiffersFromDominant(el, sn)
    /\ q.inDominantGroup = "false" => el.group_key # sn.dominant_group_key
    /\ q.groupIndex # Undefined => el.group_index = q.groupIndex
    /\ q.fromDominantList => ~DiffersFromDominant(el, sn)

IsMatch(el) == Matches(elementQuery, el, querySnapshot)

\* ElementQuery.findAll(snapshot): the matches, sorted by doc_y ?? bbox.y
FindAll ==
    /\ foundIds = NotQueried
    /\ LET matches == SelectSeq(querySnapshot.elements, IsMatch)
           sorted == SortedBy(matches,
                              [i \in 1..Len(matches) |-> <<GetYPosition(matches[i])>>])
       IN foundIds' = [i \in 1..Len(sorted) |-> sorted[i].id]
    /\ UNCHANGED <<querySnapshot, elementQuery, notQuery>>

GroupKeys == {"undefined", "null", "g1", "g2"}

QueryElements(id) ==
    [id : {id}, role : {"button"}, doc_y : 0..1, bbox : {PlainBBox},
     group_key : GroupKeys, group_index : {Undefined, 0}]

ElementQueries ==
    {E(role, group, dg) : role \in {"undefined", "link"}, group \in {"undefined", "g1"},
                          dg \in {"undefined", "true", "false"}}
    \cup {Nth(k) : k \in 0..1}

RECURSIVE QueryElementLists(_)
QueryElementLists(n) ==
    IF n = 0 THEN {<<>>}
    ELSE {Append(els, e) : els \in QueryElementLists(n - 1), e \in QueryElements(n)}

InitQuery ==
    /\ querySnapshot \in
        [elements : UNION {QueryElementLists(n) : n \in 0..MaxQueryElements},
         dominant_group_key : GroupKeys]
    /\ elementQuery \in ElementQueries
    /\ foundIds = NotQueried

NextQuery == FindAll

(***************************************************************************)
(*                            Specifications                               *)
(***************************************************************************)
\* A component that is not under analysis stays in a fixed state.
CacheOff == InitCache /\ maxAgeMs = 0

EventuallyOff ==
    /\ config = [timeout |-> 0, poll |-> 0, maxRetries |-> 0]
    /\ pc = "off"
    /\ clock = 0
    /\ attempts = 0
    /\ lastOutcome = NullOutcome
    /\ ctx = InitialContext
    /\ refreshes = 0
    /\ result = NullOutcome
    /\ raised = "none"
    /\ log = <<>>

DebuggerOff == InitDebugger /\ autoStep = TRUE

WaitOff ==
    /\ InitWait
    /\ waitKind = "waitReadyState"
    /\ waitTimeoutMs = 0
    /\ waitState = "interactive"

UrlMatchesOff ==
    /\ rx = [source |-> <<"a">>, global |-> FALSE, sticky |-> FALSE, lastIndex |-> 0]
    /\ matchLog = <<>>

CombinatorsOff == subPredicates = <<>> /\ combined = NotEvaluated

VerifyOff == UrlMatchesOff /\ CombinatorsOff

CaptchaOff ==
    /\ captcha = NoCaptcha
    /\ captchaOptions = [minConfidence |-> 0, policy |-> "abort"]
    /\ gate = NotGated

ScrollOff == InitScroll /\ scrollTop = 0
                       /\ scrollOpts = [minDeltaPx |-> 1, timeoutMs |-> 1, jsFallback |-> FALSE]

AgentOff ==
    /\ InitAgent
    /\ agentConfig = [enabled |-> FALSE, maxVisionCalls |-> 0, historyLastN |-> 0]
    /\ runOpts = [steps |-> <<>>, stopOnFailure |-> TRUE]

FormatterOff ==
    /\ snap = [elements |-> <<>>, dominant_group_key |-> "null"]
    /\ selector = [byImportance |-> 0, fromDominantGroup |-> 0, byPosition |-> 0]
    /\ formatted = NotFormatted

TokensOff == InitTokens

AdapterOff == InitAdapter /\ sessionHasApi = FALSE

QueryOff ==
    /\ querySnapshot = [elements |-> <<>>, dominant_group_key |-> "undefined"]
    /\ elementQuery = E("undefined", "undefined", "undefined")
    /\ foundIds = NotQueried

OthersOff ==
    /\ CacheOff /\ EventuallyOff /\ DebuggerOff /\ WaitOff /\ VerifyOff
    /\ CaptchaOff /\ ScrollOff /\ AgentOff

InitSpecCache == InitCache /\ EventuallyOff /\ DebuggerOff /\ WaitOff /\ VerifyOff
    /\ CaptchaOff
    /\ ScrollOff
    /\ AgentOff
    /\ FormatterOff
    /\ TokensOff
    /\ AdapterOff
    /\ QueryOff

SpecCache == InitSpecCache /\ [][NextCache]_vars

InitSpecEventually ==
    CacheOff /\ InitEventually /\ DebuggerOff /\ WaitOff /\ VerifyOff
    /\ CaptchaOff
    /\ ScrollOff
    /\ AgentOff
    /\ FormatterOff
    /\ TokensOff
    /\ AdapterOff
    /\ QueryOff

SpecEventually == InitSpecEventually /\ [][NextEventually]_vars

\* The event loop resumes evaluate() whenever the promise it awaits settles,
\* and its synchronous segments run to their end.
FairSpecEventually == SpecEventually /\ WF_vars(NextEventually)

InitSpecDebugger ==
    CacheOff /\ EventuallyOff /\ InitDebugger /\ WaitOff /\ VerifyOff
    /\ CaptchaOff
    /\ ScrollOff
    /\ AgentOff
    /\ FormatterOff
    /\ TokensOff
    /\ AdapterOff
    /\ QueryOff

InitSpecWait == CacheOff /\ EventuallyOff /\ DebuggerOff /\ InitWait /\ VerifyOff
    /\ CaptchaOff
    /\ ScrollOff
    /\ AgentOff
    /\ FormatterOff
    /\ TokensOff
    /\ AdapterOff
    /\ QueryOff

InitSpecUrlMatches ==
    /\ CacheOff /\ EventuallyOff /\ DebuggerOff /\ WaitOff
    /\ InitUrlMatches /\ CombinatorsOff
    /\ CaptchaOff
    /\ ScrollOff
    /\ AgentOff
    /\ FormatterOff
    /\ TokensOff
    /\ AdapterOff
    /\ QueryOff

SpecUrlMatches == InitSpecUrlMatches /\ [][NextUrlMatches]_vars

InitSpecCombinators ==
    /\ CacheOff /\ EventuallyOff /\ DebuggerOff /\ WaitOff
    /\ UrlMatchesOff /\ InitCombinators
    /\ CaptchaOff
    /\ ScrollOff
    /\ AgentOff
    /\ FormatterOff
    /\ TokensOff
    /\ AdapterOff
    /\ QueryOff

SpecCombinators == InitSpecCombinators /\ [][NextCombinators]_vars

SpecWait == InitSpecWait /\ [][NextWait]_vars

\* A loop that can take a step takes one: the backend answers, sleeps end.
FairSpecWait == SpecWait /\ WF_vars(NextWaitLoop)

SpecDebugger == InitSpecDebugger /\ [][NextDebugger]_vars

InitSpecCaptcha ==
    /\ CacheOff /\ EventuallyOff /\ DebuggerOff /\ WaitOff /\ VerifyOff
    /\ InitCaptcha
    /\ ScrollOff
    /\ AgentOff
    /\ FormatterOff
    /\ TokensOff
    /\ AdapterOff
    /\ QueryOff

SpecCaptcha == InitSpecCaptcha /\ [][NextCaptcha]_vars

InitSpecScroll ==
    /\ CacheOff /\ EventuallyOff /\ DebuggerOff /\ WaitOff /\ VerifyOff
    /\ CaptchaOff
    /\ InitScroll
    /\ AgentOff
    /\ FormatterOff
    /\ TokensOff
    /\ AdapterOff
    /\ QueryOff

SpecScroll == InitSpecScroll /\ [][NextScroll]_vars

InitSpecAgent ==
    /\ CacheOff /\ EventuallyOff /\ DebuggerOff /\ WaitOff /\ VerifyOff
    /\ CaptchaOff
    /\ ScrollOff
    /\ InitAgent
    /\ FormatterOff
    /\ TokensOff
    /\ AdapterOff
    /\ QueryOff

SpecAgent == InitSpecAgent /\ [][NextAgent]_vars

InitSpecSelection ==
    /\ OthersOff
    /\ InitSelection
    /\ TokensOff
    /\ AdapterOff
    /\ QueryOff

SpecSelection == InitSpecSelection /\ [][NextFormatter]_vars

InitSpecOrdinal ==
    /\ OthersOff
    /\ InitOrdinal
    /\ TokensOff
    /\ AdapterOff
    /\ QueryOff

SpecOrdinal == InitSpecOrdinal /\ [][NextFormatter]_vars

InitSpecFormatLine ==
    /\ OthersOff
    /\ InitFormatLine
    /\ TokensOff
    /\ AdapterOff
    /\ QueryOff

SpecFormatLine == InitSpecFormatLine /\ [][NextFormatter]_vars

InitSpecTokens ==
    /\ OthersOff
    /\ FormatterOff
    /\ InitTokens
    /\ AdapterOff
    /\ QueryOff

SpecTokens == InitSpecTokens /\ [][NextTokens]_vars

InitSpecAdapter ==
    /\ OthersOff
    /\ FormatterOff
    /\ TokensOff
    /\ InitAdapter
    /\ QueryOff

SpecAdapter == InitSpecAdapter /\ [][NextAdapter]_vars

InitSpecDominantFlag ==
    /\ OthersOff
    /\ InitDominantFlag
    /\ TokensOff
    /\ AdapterOff
    /\ QueryOff

SpecDominantFlag == InitSpecDominantFlag /\ [][NextFormatter]_vars

InitSpecQuery ==
    /\ OthersOff
    /\ FormatterOff
    /\ TokensOff
    /\ AdapterOff
    /\ InitQuery

SpecQuery == InitSpecQuery /\ [][NextQuery]_vars

Init ==
    /\ InitCache /\ InitEventually /\ InitDebugger /\ InitWait
    /\ InitUrlMatches /\ InitCombinators
    /\ InitCaptcha
    /\ InitScroll
    /\ InitAgent
    /\ InitFormatter
    /\ InitTokens
    /\ InitAdapter
    /\ InitQuery

Next ==
    \/ NextCache \/ NextEventually \/ NextDebugger \/ NextWait
    \/ NextUrlMatches \/ NextCombinators
    \/ NextCaptcha
    \/ NextScroll
    \/ NextAgent
    \/ NextFormatter
    \/ NextTokens
    \/ NextAdapter
    \/ NextQuery

Spec == Init /\ [][Next]_vars

(***************************************************************************)
(* C1: get() returns the stored snapshot without a backend call exactly    *)
(* when a snapshot is stored, forceRefresh is false and the stored         *)
(* snapshot's age is at most maxAgeMs; otherwise it takes exactly one new  *)
(* backend snapshot, stores it and returns it.                             *)
(***************************************************************************)
C1_CachedIffFresh ==
    /\ lastGet.kind \in {"cached", "suspended"} =>
          ((lastGet.kind = "cached") <=> lastGet.cond)
    /\ lastGet.kind = "cached" =>
          /\ lastGet.ncap = 0
          /\ lastGet.value # NullSnap
          /\ lastGet.value = cached
    /\ lastGet.kind = "fresh" =>
          /\ lastGet.ncap = 1
          /\ lastGet.value # NullSnap
          /\ lastGet.value = cached

\* A get() answered from the cache at age exactly maxAgeMs > 0.
C1_Witness ==
    /\ lastGet.kind = "cached"
    /\ now - cachedAt = maxAgeMs
    /\ maxAgeMs > 0

(***************************************************************************)
(* C2: once invalidate() has been called, no later get() without           *)
(* forceRefresh returns a snapshot whose backend capture was taken before  *)
(* that invalidate().                                                      *)
(***************************************************************************)
C2_NoPreInvalidateSnapshot ==
    (lastGet.kind \in {"cached", "fresh"} /\ ~lastGet.force
       /\ lastGet.invCapsAtCall >= 0)
        => lastGet.value.id > lastGet.invCapsAtCall

(***************************************************************************)
(* Observations on a run of evaluate().                                    *)
(***************************************************************************)
\* Positions of the log that are attempts: predicate evaluations and failed
\* refreshes.
AttemptPositions == {i \in 1..Len(log) : log[i].ev # "refresh_ok"}

AttemptsMade == Cardinality(AttemptPositions)

PredicatePositions ==
    {i \in 1..Len(log) : log[i].ev \in {"predicate", "predicate_threw"}}

FailedPositions ==
    {i \in 1..Len(log) : log[i].ev = "refresh_failed"
                         \/ (log[i].ev = "predicate" /\ ~log[i].passed)}

LastOf(S) == CHOOSE i \in S : \A j \in S : j <= i

TerminationCauses == {"timeout", "max retries"}

(***************************************************************************)
(* C3 (as claimed): evaluate() stops at the first of predicate pass,       *)
(* elapsed >= timeout or attempts >= maxRetries, having made at most       *)
(* maxRetries attempts.                                                    *)
(***************************************************************************)
C3_StopsAtFirstOf ==
    pc = "done" =>
        /\ result.passed \/ clock >= config.timeout
             \/ attempts >= config.maxRetries
        /\ AttemptsMade <= config.maxRetries

(***************************************************************************)
(* C3 (amended): evaluate() always ends, by returning an outcome or by     *)
(* raising the error of a predicate that throws; it never makes more than  *)
(* maxRetries attempts; and when it returns, the predicate has passed, or  *)
(* elapsed >= timeout, or attempts >= maxRetries, or the last predicate    *)
(* evaluation failed with elapsed + poll >= timeout.                       *)
(***************************************************************************)
C3_StopState ==
    /\ AttemptsMade <= config.maxRetries
    /\ attempts = (IF (pc = "done" /\ result.passed) \/ pc = "thrown"
                   THEN AttemptsMade - 1 ELSE AttemptsMade)
    /\ pc = "done" =>
          \/ result.passed
          \/ clock >= config.timeout
          \/ attempts >= config.maxRetries
          \/ /\ log[Len(log)].ev = "predicate"
             /\ clock + config.poll >= config.timeout

C3_EndsWithinBudget == []C3_StopState /\ <>(pc \in {"done", "thrown"})

\* evaluate() has returned early: nothing passed, the timeout has not elapsed
\* and attempts are left.
C3_Witness ==
    /\ pc = "done"
    /\ ~result.passed
    /\ clock < config.timeout
    /\ attempts < config.maxRetries
    /\ attempts >= 1

(***************************************************************************)
(* C4: the first predicate evaluation uses the context passed in, with no  *)
(* refresh call before it; every later predicate evaluation comes right    *)
(* after exactly one successful refresh and is evaluated on the snapshot   *)
(* that refresh returned.                                                  *)
(***************************************************************************)
C4_RefreshBeforeLaterEvaluations ==
    \A i \in PredicatePositions :
        IF \A j \in PredicatePositions : j >= i
        THEN i = 1 /\ log[i].snap = InitialContext.snapshot
        ELSE /\ i > 1
             /\ log[i - 1].ev = "refresh_ok"
             /\ log[i].snap = log[i - 1].snap
             /\ i > 2 => log[i - 2].ev # "refresh_ok"

\* A second predicate evaluation has taken place after a failed and a
\* successful refresh.
C4_Witness ==
    /\ Cardinality(PredicatePositions) >= 2
    /\ \E i \in 1..Len(log) : log[i].ev = "refresh_failed"
    /\ log[Len(log)].ev = "predicate"
    /\ log[Len(log)].snap.id >= 2

(***************************************************************************)
(* C5: a non-passing outcome returned after at least one attempt is the    *)
(* outcome of the most recent failed attempt, its reason prefixed by       *)
(* exactly one termination cause (timeout or max retries exceeded).        *)
(***************************************************************************)
C5_LastOutcomePrefixedOnce ==
    (pc = "done" /\ ~result.passed /\ AttemptsMade >= 1) =>
        /\ result.by = LastOf(FailedPositions)
        /\ result.by = LastOf(AttemptPositions)
        /\ result.base \in {"predicate", "failed to take snapshot"}
        /\ Len(result.prefixes) = 1
        /\ result.prefixes[1] \in TerminationCauses

\* evaluate() has returned the outcome of a failed refresh that followed a
\* failed predicate evaluation.
C5_Witness ==
    /\ pc = "done"
    /\ ~result.passed
    /\ AttemptsMade >= 2
    /\ result.base = "failed to take snapshot"

(***************************************************************************)
(* C6: a passing outcome carries details.attempts equal to the number of   *)
(* attempts made, the passing one included, so it is at least 1.           *)
(***************************************************************************)
C6_PassingAttemptsCount ==
    (pc = "done" /\ result.passed) =>
        /\ result.attempts = AttemptsMade
        /\ result.attempts >= 1

\* evaluate() has passed on its third attempt, after a failed refresh.
C6_Witness ==
    /\ pc = "done"
    /\ result.passed
    /\ AttemptsMade = 3
    /\ \E i \in 1..Len(log) : log[i].ev = "refresh_failed"

(***************************************************************************)
(* C7: an error of the refresh callback or of the predicate becomes a      *)
(* failing outcome when it is a transport or protocol error, and escapes   *)
(* evaluate() when it is a cancellation or policy error.                   *)
(***************************************************************************)
C7_ErrorsHandledByKind ==
    /\ raised \notin TransportOrProtocol
    /\ lastOutcome.error \notin CancellationOrPolicy

(***************************************************************************)
(* C8: at most one step is open on the runtime at any time: a beginStep    *)
(* that reaches the runtime while a step is open is raised as an error,    *)
(* emits nothing and opens no second step.                                 *)
(***************************************************************************)
C8_OneOpenStep ==
    /\ Cardinality(runtime.openSteps) <= 1
    /\ lastCall.openAtCall => (lastCall.raised /\ lastCall.emitted = 0)

\* dbg.beginStep() was called while a step it had opened was still open.
C8_Witness ==
    /\ lastCall.op = "beginStep"
    /\ lastCall.openAtCall
    /\ lastCall.raised
    /\ stepOpen
    /\ Cardinality(runtime.openSteps) = 1

(***************************************************************************)
(* C9: dbg.endStep() called right after dbg.endStep(), or                  *)
(* runtime.emitStepEnd() called right after either of them, emits no       *)
(* event and changes nothing in the debugger, the runtime or the handles.  *)
(***************************************************************************)
C9_SecondEndIsNoOp ==
    [][lastCall'.repeat =>
          /\ runtime' = runtime
          /\ stepOpen' = stepOpen
          /\ autoOpenedStep' = autoOpenedStep
          /\ autoOpenedStepId' = autoOpenedStepId
          /\ handles' = handles
          /\ stepTask' = stepTask]_vars

\* A step was ended, and then ended a second time.
C9_Witness ==
    /\ lastCall.op = "endStep"
    /\ lastCall.repeat
    /\ Len(trace) > 0
    /\ trace[Len(trace)].type = "step_end"

(***************************************************************************)
(* C10: in the trace, the events before a step_start belong to earlier     *)
(* steps and the events after it to that step or later ones, and the       *)
(* step_end of step N comes before the step_start of step N+1, whether     *)
(* step N was closed by endStep, by an assertion handle or by the          *)
(* beginStep that opens step N+1.                                          *)
(***************************************************************************)
C10_StepEventsBeforeNextStart ==
    \A i \in 1..Len(trace) :
        trace[i].type = "step_start" =>
            /\ \A j \in 1..(i - 1) : trace[j].step < trace[i].step
            /\ \A j \in (i + 1)..Len(trace) : trace[j].step >= trace[i].step
            /\ trace[i].step > 1 =>
                   \E k \in 1..(i - 1) : /\ trace[k].type = "step_end"
                                         /\ trace[k].step = trace[i].step - 1

\* An auto-opened verify step with a verification in it was closed by the
\* beginStep that opened the next step.
C10_Witness ==
    LET n == Len(trace)
    IN /\ lastCall.op = "beginStep"
       /\ lastCall.emitted = 2
       /\ n >= 4
       /\ trace[n].type = "step_start"
       /\ trace[n - 1].type = "step_end"
       /\ trace[n - 2].type = "verification"
       /\ trace[n - 3].type = "step_start"
       /\ trace[n - 3].goal = VerifyGoal
       /\ trace[n - 3].step = trace[n - 1].step
       /\ trace[n].step = trace[n - 1].step + 1

C12_CheckWithoutOpenStep ==
    lastCall.op = "check" =>
        LET n == Len(trace)
        IN /\ (~lastCall.stepOpenAtCall /\ autoStep /\ ~lastCall.openAtCall) =>
                  /\ ~lastCall.raised
                  /\ lastCall.emitted = 1
                  /\ trace[n].type = "step_start"
                  /\ trace[n].goal = "verify:label"
                  /\ stepOpen
                  /\ runtime.openSteps = {trace[n].step}
                  /\ \E h \in Handles : /\ handles[h].state = "ready"
                                        /\ handles[h].autoClose
                                        /\ handles[h].openedStepId = trace[n].step
           /\ (~lastCall.stepOpenAtCall /\ ~autoStep) =>
                  /\ lastCall.raised
                  /\ lastCall.emitted = 0
                  /\ ~stepOpen
           /\ lastCall.stepOpenAtCall =>
                  /\ ~lastCall.raised
                  /\ lastCall.emitted = 0

\* check() has auto-opened a verification step.
C12_Witness ==
    /\ lastCall.op = "check"
    /\ ~lastCall.stepOpenAtCall
    /\ autoStep
    /\ lastCall.emitted = 1
    /\ autoOpenedStep
    /\ autoOpenedStepId = runtime.stepId

\* check() has thrown for want of a step.
C12_ThrowReached == lastCall.op = "check" /\ lastCall.raised /\ ~autoStep

\* check() was called in an open step.
C12_OpenStepReached == lastCall.op = "check" /\ lastCall.stepOpenAtCall

(***************************************************************************)
(* C13: step(goal, fn) begins one step before fn runs; when beginStep      *)
(* raises, fn is not run; when fn has returned or thrown, endStep is       *)
(* called once, so that no step is open, and step() is over.               *)
(***************************************************************************)
C13_StepBeginsAndEndsOnce ==
    LET n == Len(trace)
    IN /\ (lastCall.op = "step" /\ ~lastCall.raised) =>
              /\ stepTask = "inFn"
              /\ stepOpen
              /\ trace[n].type = "step_start"
              /\ trace[n].goal = ManualGoal
              /\ runtime.openSteps = {trace[n].step}
       /\ (lastCall.op = "step" /\ lastCall.raised) =>
              /\ stepTask = "idle"
              /\ lastCall.emitted = 0
       /\ lastCall.op = "stepFinally" =>
              /\ lastCall.end = "endStep"
              /\ lastCall.emitted <= 1
              /\ ~stepOpen
              /\ runtime.openSteps = {}
              /\ stepTask = "idle"

\* fn has thrown inside step(), and the step was ended.
C13_Witness ==
    /\ lastCall.op = "stepFinally"
    /\ lastCall.raised
    /\ lastCall.emitted = 1
    /\ trace[Len(trace)].type = "step_end"

(***************************************************************************)
(* C14: once the caller's abort signal is raised, a polling loop sends no  *)
(* further readiness test and ends with a Cancelled error.                 *)
(***************************************************************************)
C14_AbortStopsLoops ==
    /\ ~polledAfterAbort
    /\ (abortSignal /\ waitPc = "done") => waitOutcome = "Cancelled"

(***************************************************************************)
(* C15: each polling loop ends, by returning or by raising, and it sends   *)
(* no readiness test once the time it has waited has reached timeoutMs:    *)
(* between two tests it waits a full poll interval, so that it sends at    *)
(* most one test per interval that fits in timeoutMs.                      *)
(***************************************************************************)
C15_TestsWithinTimeout ==
    waitPolls >= 1 => (waitPolls - 1) * PollMs < waitTimeoutMs

C15_PollingLoopsEnd ==
    /\ []C15_TestsWithinTimeout
    /\ [](waitPc = "done" => waitOutcome # "pending")
    /\ <>(waitPc = "done")

\* A loop has given up after several tests that all failed.
C15_Witness ==
    /\ waitPc = "done"
    /\ waitOutcome \in {"Timed out", "ExtensionNotLoadedError", "false"}
    /\ waitPolls >= 2

(***************************************************************************)
(* C16: the cache holds no snapshot exactly when cachedAt is 0.            *)
(***************************************************************************)
C16_NullIffCachedAtZero == (cached = NullSnap) <=> (cachedAt = 0)

\* A get() has failed while a snapshot stored by an earlier get() is held.
C16_Witness ==
    /\ lastGet.kind = "error"
    /\ cached # NullSnap
    /\ cachedAt > 0
    /\ invCaps >= 0

(***************************************************************************)
(* invalidate() leaves the cache empty (no snapshot, cachedAt 0, no cached *)
(* URL, ageMs infinite), and a second invalidate() changes nothing.        *)
(***************************************************************************)
EmptyAfterInvalidate ==
    [][Invalidate => /\ cached' = NullSnap
                     /\ cachedAt' = 0
                     /\ cachedUrl' = "null"
                     /\ ageMs' = "Infinity"
                     /\ (cached = NullSnap /\ cachedAt = 0 /\ cachedUrl = "null") =>
                            UNCHANGED <<cached, cachedAt, cachedUrl>>]_vars

(***************************************************************************)
(* C17: invalidate() empties the cache, so that the get() called next      *)
(* after invalidate() is not answered from the cache but fetches a new     *)
(* snapshot from the backend, whatever maxAgeMs is.                        *)
(***************************************************************************)
C17_InvalidateForcesRefresh ==
    lastGet.afterInvalidate => lastGet.kind # "cached"

(***************************************************************************)
(* C18: a predicate returns equal outcomes on equal contexts, also when    *)
(* the same predicate instance is evaluated again: any two evaluations of  *)
(* a predicate of urlMatches on the same URL have the same outcome.        *)
(***************************************************************************)
C18_SameContextSameOutcome ==
    \A i, j \in 1..Len(matchLog) :
        matchLog[i].url = matchLog[j].url =>
            matchLog[i].outcome = matchLog[j].outcome

\* With a RegExp that is neither global nor sticky (a string pattern always
\* gives one), evaluations on the same URL agree.
UrlMatchesPureWithoutFlags ==
    ~(rx.global \/ rx.sticky) => C18_SameContextSameOutcome

(***************************************************************************)
(* C19: allOf evaluates every sub-predicate once, in argument order,       *)
(* whatever the earlier ones returned; it passes exactly when all of them  *)
(* pass (so with no sub-predicate it passes); when it fails, its reason    *)
(* is the list of the reasons of the failing sub-predicates, in argument   *)
(* order.                                                                  *)
(***************************************************************************)
FailingIndexes == {i \in 1..Len(subPredicates) : subPredicates[i].kind = "fail"}

C19_AllOfCollectsAll ==
    (combined.op = "allOf" /\ combined.kind = "returned") =>
        /\ combined.calls = [i \in 1..Len(subPredicates) |-> i]
        /\ combined.passed <=> (\A i \in 1..Len(subPredicates) :
                                   subPredicates[i].kind = "pass")
        /\ Len(combined.reason) =
               IF FailingIndexes = {} THEN 0 ELSE 2 * Cardinality(FailingIndexes) - 1
        /\ \A k \in 1..Cardinality(FailingIndexes) :
               \E i \in FailingIndexes :
                   /\ Cardinality({m \in FailingIndexes : m <= i}) = k
                   /\ combined.reason[2 * k - 1] = subPredicates[i].reason

\* allOf has failed on two failing sub-predicates with different reasons and
\* a passing one.
C19_Witness ==
    /\ combined.op = "allOf"
    /\ combined.kind = "returned"
    /\ ~combined.passed
    /\ Len(combined.reason) = 3
    /\ combined.reason[1] # combined.reason[3]
    /\ Len(subPredicates) = 3

(***************************************************************************)
(* C20: anyOf passes exactly when a sub-predicate passes; it returns at    *)
(* the first passing sub-predicate in argument order and evaluates none    *)
(* after it; when none passes (also with no sub-predicate) it fails and    *)
(* its reason lists the reason of every sub-predicate, in argument order.  *)
(***************************************************************************)
PassingIndexes == {i \in 1..Len(subPredicates) : subPredicates[i].kind = "pass"}

C20_AnyOfFirstPass ==
    (combined.op = "anyOf" /\ combined.kind = "returned") =>
        /\ combined.passed <=> PassingIndexes # {}
        /\ combined.passed =>
               LET first == CHOOSE i \in PassingIndexes :
                                \A m \in PassingIndexes : i <= m
               IN combined.calls = [i \in 1..first |-> i]
        /\ ~combined.passed =>
               LET n == Len(subPredicates)
               IN /\ combined.calls = [i \in 1..n |-> i]
                  /\ Len(combined.reason) = 3 + (IF n = 0 THEN 0 ELSE 2 * n - 1)
                  /\ combined.reason[2] = n
                  /\ \A i \in 1..n :
                         combined.reason[3 + 2 * i - 1] = subPredicates[i].reason

\* anyOf has passed on its second sub-predicate, a third one left alone.
C20_Witness ==
    /\ combined.op = "anyOf"
    /\ combined.kind = "returned"
    /\ combined.passed
    /\ combined.calls = <<1, 2>>
    /\ Len(subPredicates) = 3

\* anyOf has failed on two sub-predicates.
C20_FailureReached ==
    /\ combined.op = "anyOf"
    /\ combined.kind = "returned"
    /\ ~combined.passed
    /\ Len(subPredicates) = 2

(***************************************************************************)
(* C21: a snapshot whose captcha evidence is iframe_src_hits only (no      *)
(* text, selector or url hits) never triggers gating, whatever its         *)
(* confidence, also above minConfidence.                                   *)
(***************************************************************************)
C21_PassiveEvidenceNeverGates ==
    (/\ gate.ran
     /\ captcha.present
     /\ captcha.evidence.iframe_src_hits
     /\ ~captcha.evidence.text_hits
     /\ ~captcha.evidence.selector_hits
     /\ ~captcha.evidence.url_hits)
    => (~gate.detected /\ gate.effect = "proceed")

\* a detected, passive-only captcha above minConfidence was let through,
C21_Witness ==
    /\ gate.ran
    /\ captcha.present
    /\ captcha.detected
    /\ captcha.evidence = [iframe_src_hits |-> TRUE, selector_hits |-> FALSE,
                           text_hits |-> FALSE, url_hits |-> FALSE]
    /\ captcha.confidence > captchaOptions.minConfidence
    /\ captchaOptions.policy = "abort"
    /\ gate.effect = "proceed"

\* while text evidence at the same confidence gates the step.
C21_InteractiveGates ==
    /\ gate.ran
    /\ captcha.present
    /\ captcha.evidence.text_hits
    /\ gate.detected
    /\ gate.effect = "CaptchaAbort"

(***************************************************************************)
(* Observations on a call of scrollBy.                                     *)
(***************************************************************************)
ScrollDistance(o) ==
    IF o.after >= scrollBefore THEN o.after - scrollBefore
    ELSE scrollBefore - o.after

\* a reading taken inside the polling loop, that is before timeoutMs had
\* passed, showed a move of at least minDeltaPx
MoveSeenWithinTimeout ==
    \E o \in scrollObserved :
        o.phase = "poll" /\ ScrollDistance(o) >= scrollOpts.minDeltaPx

\* the reading taken after the script fallback showed such a move
MoveSeenAfterFallback ==
    \E o \in scrollObserved :
        o.phase = "fallback" /\ ScrollDistance(o) >= scrollOpts.minDeltaPx

(***************************************************************************)
(* C22 (as claimed): scrollBy with verify returns true exactly when a move *)
(* of at least minDeltaPx was observed within timeoutMs, and a wheel event *)
(* that leaves the position unchanged yields false.                        *)
(***************************************************************************)
C22_TrueIffMovedWithinTimeout ==
    scrollPc = "done" =>
        /\ (scrollResult = TRUE) <=> MoveSeenWithinTimeout
        /\ (wheelEffect = 0 /\ scrollOpts.minDeltaPx > 0) => scrollResult = FALSE

(***************************************************************************)
(* C22 (amended): scrollBy with verify returns true exactly when a move of *)
(* at least minDeltaPx was observed, by a reading within timeoutMs or by   *)
(* the reading after the script fallback; without jsFallback it returns    *)
(* true exactly when the move was observed within timeoutMs, and then a    *)
(* wheel event that leaves the position unchanged yields false (for        *)
(* minDeltaPx > 0).  One verification event of kind scroll carries the     *)
(* result.                                                                 *)
(***************************************************************************)
C22_TrueIffMoveObserved ==
    scrollPc = "done" =>
        /\ (scrollResult = TRUE) <=> (MoveSeenWithinTimeout \/ MoveSeenAfterFallback)
        /\ MoveSeenAfterFallback => (scrollOpts.jsFallback /\ ~MoveSeenWithinTimeout)
        /\ ~scrollOpts.jsFallback =>
               /\ (scrollResult = TRUE) <=> MoveSeenWithinTimeout
               /\ (wheelEffect = 0 /\ scrollOpts.minDeltaPx > 0) => scrollResult = FALSE
        /\ scrollEvents = <<[kind |-> "scroll", passed |-> scrollResult]>>

\* the wheel event was absorbed, the fallback moved the page: true
C22_Witness ==
    /\ scrollPc = "done"
    /\ scrollResult = TRUE
    /\ wheelEffect = 0
    /\ scrollOpts.minDeltaPx > 0
    /\ scrollOpts.timeoutMs > 0
    /\ ~MoveSeenWithinTimeout
    /\ MoveSeenAfterFallback

\* the wheel event was absorbed and there is no fallback: false
C22_AbsorbedWheelFails ==
    /\ scrollPc = "done"
    /\ scrollResult = FALSE
    /\ wheelEffect = 0
    /\ ~scrollOpts.jsFallback
    /\ scrollOpts.timeoutMs > 0
    /\ scrollEvents = <<[kind |-> "scroll", passed |-> FALSE]>>

(***************************************************************************)
(* C23: run() executes the steps strictly in the given order, one at a     *)
(* time; with stopOnFailure it executes no step after the first step       *)
(* whose outcome is not ok, and returns false.                             *)
(***************************************************************************)
C23_StepsInOrderStopOnFailure ==
    \* in order: the k-th step started is step k of the list
    /\ \A k \in 1..Len(agentStarted) : agentStarted[k] = k
    /\ \A k \in 1..Len(agentLog) : agentLog[k].index = k
    \* one at a time: a step starts only when all earlier ones have finished
    /\ Len(agentStarted) - Len(agentLog) =
           (IF agentPc = "inStep" \/ runResult = "thrown" THEN 1 ELSE 0)
    \* stopOnFailure: only the last step executed can have failed,
    /\ runOpts.stopOnFailure =>
           \A k \in 1..Len(agentLog) : ~agentLog[k].ok => k = Len(agentStarted)
    \* and run() then returns false
    /\ (/\ runOpts.stopOnFailure
        /\ agentPc = "done"
        /\ \E k \in 1..Len(agentLog) : ~agentLog[k].ok) => runResult = "false"
    /\ runResult = "true" =>
           /\ Len(agentLog) = Len(runOpts.steps)
           /\ runOpts.stopOnFailure => \A k \in 1..Len(agentLog) : agentLog[k].ok

\* the first of three steps failed, the other two were never started
C23_Witness ==
    /\ runOpts.stopOnFailure
    /\ Len(runOpts.steps) = 3
    /\ agentPc = "done"
    /\ agentStarted = <<1>>
    /\ ~agentLog[1].ok
    /\ runResult = "false"

\* without stopOnFailure the run goes through all steps and returns true
C23_ContinuesWithoutStop ==
    /\ ~runOpts.stopOnFailure
    /\ agentPc = "done"
    /\ agentStarted = <<1, 2, 3>>
    /\ ~agentLog[1].ok
    /\ runResult = "true"

(***************************************************************************)
(* C24: with vision enabled and maxVisionCalls = k > 0, at most k calls    *)
(* of the vision executor are made across the steps, and once k have been  *)
(* made every later step runs with the vision executor disabled.           *)
(***************************************************************************)
C24_VisionBudget ==
    (agentConfig.enabled /\ agentConfig.maxVisionCalls > 0) =>
        /\ VisionCallsOf(agentLog) <= agentConfig.maxVisionCalls
        /\ \A k \in 1..Len(agentLog) :
               VisionCallsOf(SubSeq(agentLog, 1, k - 1)) >= agentConfig.maxVisionCalls
                   => ~agentLog[k].visionExecutorEnabled

(***************************************************************************)
(* Observations on a formatted snapshot.  Identifiers are positions in     *)
(* snap.elements.                                                          *)
(***************************************************************************)
WasFormatted == formatted # NotFormatted

LineIds == [i \in 1..Len(formatted) |-> formatted[i].id]

IdsBetween(from, to) == {LineIds[i] : i \in from..to}

InteractiveIds == {i \in 1..Len(snap.elements) : IsInteractive(snap.elements[i])}

DominantIds == {i \in InteractiveIds : LineInDg(snap, snap.elements[i])}

AtMost(n, S) == IF n < Cardinality(S) THEN n ELSE Cardinality(S)

ImportanceOf(i) == snap.elements[i].importance

GroupIndexOf(i) == snap.elements[i].group_index

\* i lies above j on the page, or at the same height and is more important
Above(i, j) ==
    \/ GetYPosition(snap.elements[i]) < GetYPosition(snap.elements[j])
    \/ /\ GetYPosition(snap.elements[i]) = GetYPosition(snap.elements[j])
       /\ ImportanceOf(i) > ImportanceOf(j)

(***************************************************************************)
(* C26: the formatter outputs at most one line per element id, only for    *)
(* elements with an interactive role, in this order: the top byImportance  *)
(* elements by importance descending; then those of the top                *)
(* fromDominantGroup dominant-group elements (by group_index) that are not *)
(* yet selected; then those of the top byPosition elements (lowest doc_y,  *)
(* ties by importance descending) that are not yet selected.               *)
(***************************************************************************)
C26_ThreeWaySelection ==
    WasFormatted =>
        LET na == AtMost(selector.byImportance, InteractiveIds)
        IN \* one line per id, interactive elements only
           /\ \A i, j \in 1..Len(formatted) : LineIds[i] = LineIds[j] => i = j
           /\ \A i \in 1..Len(formatted) : LineIds[i] \in InteractiveIds
           \* first the na most important elements, most important first
           /\ Len(formatted) >= na
           /\ \A i, j \in 1..na : i < j => ImportanceOf(LineIds[i]) >= ImportanceOf(LineIds[j])
           /\ \A x \in InteractiveIds \ IdsBetween(1, na) :
                  \A y \in IdsBetween(1, na) : ImportanceOf(x) <= ImportanceOf(y)
           /\ \E topGroup \in SUBSET DominantIds, topPosition \in SUBSET InteractiveIds :
                  \* the first fromDominantGroup of the group by group_index
                  /\ Cardinality(topGroup) = AtMost(selector.fromDominantGroup, DominantIds)
                  /\ \A x \in topGroup, y \in DominantIds \ topGroup :
                         GroupIndexOf(x) <= GroupIndexOf(y)
                  \* the first byPosition elements from the top of the page
                  /\ Cardinality(topPosition) = AtMost(selector.byPosition, InteractiveIds)
                  /\ \A x \in topPosition, y \in InteractiveIds \ topPosition : ~Above(y, x)
                  /\ LET fromGroup == topGroup \ IdsBetween(1, na)
                         nb == Cardinality(fromGroup)
                         fromPosition == (topPosition \ IdsBetween(1, na)) \ fromGroup
                     IN /\ Len(formatted) = na + nb + Cardinality(fromPosition)
                        /\ IdsBetween(na + 1, na + nb) = fromGroup
                        /\ \A i, j \in (na + 1)..(na + nb) :
                               i < j => GroupIndexOf(LineIds[i]) <= GroupIndexOf(LineIds[j])
                        /\ IdsBetween(na + nb + 1, Len(formatted)) = fromPosition
                        /\ \A i, j \in (na + nb + 1)..Len(formatted) :
                               i < j => ~Above(LineIds[j], LineIds[i])

\* all three selections add a line, and the most important element, which
\* is also the first of the dominant group, has one line only
C26_Witness ==
    /\ WasFormatted
    /\ Len(snap.elements) = 3
    /\ selector = [byImportance |-> 1, fromDominantGroup |-> 2, byPosition |-> 2]
    /\ LineIds = <<3, 2, 1>>
    /\ DominantIds = {2, 3}
    /\ GroupIndexOf(3) < GroupIndexOf(2)
    /\ Above(1, 2)
    /\ Above(1, 3)

(***************************************************************************)
(* C27: the ord field of a dominant-group element is its 0-based position  *)
(* among all (interactive) dominant-group elements sorted by               *)
(* (doc_y, bbox.y, bbox.x, -importance), elements with equal keys in       *)
(* snapshot order; it is the same under every selection configuration.     *)
(* Other elements have ord "-".                                            *)
(***************************************************************************)
DocYOrInfinity(i) ==
    IF snap.elements[i].doc_y = Undefined THEN Infinity ELSE snap.elements[i].doc_y

\* y is listed before x in the dominant group
RankedBefore(y, x) ==
    LET a == snap.elements[y]
        b == snap.elements[x]
    IN \/ DocYOrInfinity(y) < DocYOrInfinity(x)
       \/ /\ DocYOrInfinity(y) = DocYOrInfinity(x)
          /\ \/ a.bbox.y < b.bbox.y
             \/ /\ a.bbox.y = b.bbox.y
                /\ \/ a.bbox.x < b.bbox.x
                   \/ /\ a.bbox.x = b.bbox.x
                      /\ \/ a.importance > b.importance
                         \/ a.importance = b.importance /\ y < x

PositionInGroup(x) == Cardinality({y \in DominantIds : RankedBefore(y, x)})

SelectEverything ==
    [byImportance |-> MaxElements, fromDominantGroup |-> MaxElements,
     byPosition |-> MaxElements]

C27_OrdIsPositionInGroup ==
    WasFormatted =>
        \A i \in 1..Len(formatted) :
            /\ formatted[i].dg <=> LineIds[i] \in DominantIds
            /\ formatted[i].ord =
                   IF LineIds[i] \in DominantIds
                   THEN NumberToString(PositionInGroup(LineIds[i]))
                   ELSE <<"-">>
            /\ LET all == FormatSnapshotForLLM(snap, SelectEverything)
               IN \E j \in 1..Len(all) :
                      all[j].id = LineIds[i] /\ all[j].ord = formatted[i].ord

\* one line only is selected, and it is the last of a group of three that
\* bbox.x or the importance orders
C27_Witness ==
    /\ WasFormatted
    /\ Len(formatted) = 1
    /\ formatted[1].ord = <<"2">>
    /\ Cardinality(DominantIds) = 3
    /\ \A x, y \in DominantIds :
           /\ snap.elements[x].doc_y = snap.elements[y].doc_y
           /\ snap.elements[x].bbox.y = snap.elements[y].bbox.y

(***************************************************************************)
(* C25: each line of the compact formatter has exactly 8 '|' separators    *)
(* (9 fields) and a text field of at most 30 characters, whatever          *)
(* characters the element's text, role and href contain.                   *)
(***************************************************************************)
Separators(line) == Cardinality({i \in 1..Len(line) : line[i] = "|"})

C25_NineFieldsShortText ==
    WasFormatted =>
        \A i \in 1..Len(formatted) :
            /\ Separators(formatted[i].line) = 8
            /\ Len(formatted[i].name) <= 30

HasBar(str) == \E i \in 1..Len(str) : str[i] = "|"

\* What does hold: the text field has at most 30 characters, and a line has
\* 8 separators when neither the text nor the href token contains a '|'.
NineFieldsWithoutBars ==
    WasFormatted =>
        \A i \in 1..Len(formatted) :
            /\ Len(formatted[i].name) <= 30
            /\ Separators(formatted[i].line) =
                   8 + Separators(formatted[i].name) + Separators(formatted[i].href)

\* a text of more than 30 characters was cut to 27 and "..."
TruncatedTextReached ==
    /\ WasFormatted
    /\ Len(snap.elements[1].text) > 30
    /\ Len(formatted[1].name) = 30
    /\ SubSeq(formatted[1].name, 28, 30) = <<".", ".", ".">>
    /\ Separators(formatted[1].line) = 8

\* a '|' of a relative href reaches the line
BarInHrefReached ==
    /\ WasFormatted
    /\ ~HasBar(snap.elements[1].text)
    /\ Separators(formatted[1].line) > 8

(***************************************************************************)
(* C28: snapshot() calls the extension's snapshot function only after a    *)
(* readiness test has answered true; when the loop gives up, it raises     *)
(* ExtensionNotLoadedError with diagnostics and the snapshot function is   *)
(* never called.                                                           *)
(***************************************************************************)
C28_SnapshotOnlyWhenReady ==
    /\ extensionSnapshot = "called" =>
           /\ waitKind = "waitForExtension"
           /\ lastProbe = "ready"
           /\ waitOutcome = "returned"
    /\ waitOutcome = "ExtensionNotLoadedError" =>
           /\ lastProbe # "ready"
           /\ diagnostics # "none"
           /\ extensionSnapshot = "notCalled"
    /\ (waitKind = "waitForExtension" /\ waitPc = "done") =>
           waitOutcome \in {"returned", "ExtensionNotLoadedError"}

\* the snapshot function was called after tests that failed and one that
\* answered true
C28_Witness ==
    /\ extensionSnapshot = "called"
    /\ waitPolls >= 2
    /\ lastProbe = "ready"

\* the loop gave up after tests that failed or threw
C28_NotLoadedReached ==
    /\ waitOutcome = "ExtensionNotLoadedError"
    /\ waitPolls >= 2
    /\ diagnostics = "gathered"
    /\ extensionSnapshot = "notCalled"

(***************************************************************************)
(* C29 (as claimed): waitReadyState(state) returns normally only after it  *)
(* has seen a readyState of the accepted set (interactive: interactive or  *)
(* complete; complete: complete only); otherwise it fails with a timeout   *)
(* error.                                                                  *)
(***************************************************************************)
C29_ReturnsReadyOrTimesOut ==
    (waitKind = "waitReadyState" /\ waitPc = "done") =>
        \/ /\ waitOutcome = "returned"
           /\ \/ waitState = "interactive" /\ lastProbe \in {"interactive", "complete"}
              \/ waitState = "complete" /\ lastProbe = "complete"
        \/ waitOutcome = "Timed out"

(***************************************************************************)
(* C29 (amended): waitReadyState(state) returns normally only after it has *)
(* seen a readyState of the accepted set; otherwise it fails, with a       *)
(* timeout error once timeoutMs has passed, or with the error of a         *)
(* backend.eval that throws.                                               *)
(***************************************************************************)
C29_ReturnsOnlyWhenReady ==
    (waitKind = "waitReadyState" /\ waitPc = "done") =>
        \/ /\ waitOutcome = "returned"
           /\ \/ waitState = "interactive" /\ lastProbe \in {"interactive", "complete"}
              \/ waitState = "complete" /\ lastProbe = "complete"
        \/ /\ waitOutcome = "Timed out"
           /\ waitClock >= waitTimeoutMs
           /\ lastProbe \in {"none", "loading", "interactive"}
           /\ lastProbe = "interactive" => waitState = "complete"
        \/ /\ waitOutcome = "eval error"
           /\ lastProbe = "throws"

\* waiting for 'complete', the loop saw 'interactive', went on, and returned
\* when it saw 'complete'
C29_Witness ==
    /\ waitKind = "waitReadyState"
    /\ waitState = "complete"
    /\ waitOutcome = "returned"
    /\ waitPolls >= 2
    /\ lastProbe = "complete"

\* waiting for 'complete', the loop timed out on a page that stayed interactive
C29_TimeoutReached ==
    /\ waitKind = "waitReadyState"
    /\ waitState = "complete"
    /\ waitOutcome = "Timed out"
    /\ lastProbe = "interactive"

(***************************************************************************)
(* C30: every error caught inside the snapshot service is surfaced, in the *)
(* outcome or in the error raised; none is dropped without a record.  In   *)
(* the extension-ready polls the errors caught are those of the readiness  *)
(* tests and of the diagnostics.                                           *)
(***************************************************************************)
CaughtErrors ==
    (IF probeErrors > 0 THEN {"readiness test"} ELSE {}) \cup
    (IF diagnostics = "Could not gather diagnostics" THEN {"diagnostics"} ELSE {})

\* ExtensionNotLoadedError carries diagnostics.error; nothing carries the
\* errors of the readiness tests
SurfacedErrors ==
    IF waitOutcome = "ExtensionNotLoadedError"
           /\ diagnostics = "Could not gather diagnostics"
    THEN {"diagnostics"} ELSE {}

C30_CaughtErrorsSurfaced ==
    waitPc = "done" => CaughtErrors \subseteq SurfacedErrors

(***************************************************************************)
(* Token usage accounting                                                  *)
(***************************************************************************)
\* the totals of `key` grew by one call and by the amounts pt, ct, tt
GrewBy(before, after, key, pt, ct, tt) ==
    /\ key \in DOMAIN after
    /\ after[key].calls = TotalsAt(before, key).calls + 1
    /\ after[key].promptTokens = TotalsAt(before, key).promptTokens + pt
    /\ after[key].completionTokens = TotalsAt(before, key).completionTokens + ct
    /\ after[key].totalTokens = TotalsAt(before, key).totalTokens + tt
    /\ DOMAIN after = DOMAIN before \cup {key}
    /\ \A k \in DOMAIN before \ {key} : after[k] = before[k]

\* the model key of the last recorded response
RecordedModel ==
    IF usageOp.resp.modelName \in {<<>>, <<"">>} THEN "unknown"
    ELSE usageOp.resp.modelName[1]

ResetZeroes == usageOp.op = "reset" => byRole = NoTotals /\ byModel = NoTotals

\* C31 (as claimed): a recorded call adds one call and exactly the response's
\* promptTokens, completionTokens and totalTokens to the totals of its role
\* and of its model, a missing field adding 0; reset zeroes the totals.
C31_RecordAddsFields ==
    /\ usageOp.op = "record" =>
        LET pt == NumberOrZero(usageOp.resp.promptTokens)
            ct == NumberOrZero(usageOp.resp.completionTokens)
            tt == NumberOrZero(usageOp.resp.totalTokens)
        IN /\ GrewBy(usageBefore.byRole, byRole, usageOp.role, pt, ct, tt)
           /\ GrewBy(usageBefore.byModel, byModel, RecordedModel, pt, ct, tt)
    /\ ResetZeroes

\* a field as it is counted: 0 when it is missing or negative
CountedField(f) == IF f = <<>> \/ f[1] < 0 THEN 0 ELSE f[1]

\* C31 (amended): a recorded call adds one call and max(0, promptTokens),
\* max(0, completionTokens), max(0, totalTokens) to the totals of its role
\* and of its model; a missing promptTokens or completionTokens counts as 0,
\* a missing totalTokens as promptTokens + completionTokens; no other key
\* changes, and reset empties the totals.
C31_RecordAddsCountedFields ==
    /\ usageOp.op = "record" =>
        LET resp == usageOp.resp
            pt == CountedField(resp.promptTokens)
            ct == CountedField(resp.completionTokens)
            sum == (IF resp.promptTokens = <<>> THEN 0 ELSE resp.promptTokens[1])
                   + (IF resp.completionTokens = <<>> THEN 0
                      ELSE resp.completionTokens[1])
            tt == IF resp.totalTokens = <<>> THEN CountedField(<<sum>>)
                  ELSE CountedField(resp.totalTokens)
        IN /\ GrewBy(usageBefore.byRole, byRole, usageOp.role, pt, ct, tt)
           /\ GrewBy(usageBefore.byModel, byModel, RecordedModel, pt, ct, tt)
    /\ ResetZeroes

\* a second call of a role whose response has token counts but no
\* totalTokens has been recorded
C31_Witness ==
    /\ usageOp.op = "record"
    /\ usageCalls = 2
    /\ usageOp.role \in DOMAIN usageBefore.byRole
    /\ usageOp.resp.totalTokens = <<>>
    /\ usageOp.resp.promptTokens = <<1>>
    /\ usageOp.resp.completionTokens = <<1>>
    /\ byRole[usageOp.role].totalTokens >= 2

\* the totals have been reset after a call
C31_ResetReached == usageOp.op = "reset" /\ usageBefore.byRole # NoTotals

(***************************************************************************)
(* BrowserUseAdapter                                                       *)
(***************************************************************************)
\* C32: whatever the number and interleaving of createBackend() calls,
\* getOrCreateCdpSession is invoked at most once and all calls that return
\* give the same backend instance.
C32_OneSessionOneBackend ==
    /\ sessionCalls <= 1
    /\ \A c, d \in BackendCallers :
        backendCalls[c].pc = "returned" /\ backendCalls[d].pc = "returned"
            => backendCalls[c].backend = backendCalls[d].backend

\* calls made one after the other share the backend: the case of the test
C32_SequentialCallsShare ==
    \A c, d \in BackendCallers :
        /\ backendCalls[c].pc = "returned" /\ backendCalls[d].pc = "returned"
        /\ sessionCalls = 1 /\ backendsMade = 1
        => backendCalls[c].backend = backendCalls[d].backend

\* two overlapping calls have returned different backends
OverlappingCallsReached ==
    \E c, d \in BackendCallers :
        /\ backendCalls[c].pc = "returned" /\ backendCalls[d].pc = "returned"
        /\ backendCalls[c].backend # backendCalls[d].backend

(***************************************************************************)
(* PredicateBrowserAgent: history and the result of run()                  *)
(***************************************************************************)
\* the outcomes of the steps that have finished, in execution order
Outcomes == [k \in 1..Len(agentLog) |-> [index |-> agentLog[k].index, ok |-> agentLog[k].ok]]

\* the last n outcomes (all of them when there are fewer)
LastOutcomes(n) ==
    LET kept == IF Len(Outcomes) < n THEN Len(Outcomes) ELSE n
    IN [k \in 1..kept |-> Outcomes[Len(Outcomes) - kept + k]]

\* C33: the history holds the outcomes of the most recent
\* min(steps finished, historyLastN) steps in execution order, never more
\* than historyLastN entries, and stays empty when historyLastN is 0 (a
\* negative historyLastN counts as 0).
C33_HistoryIsLastN ==
    LET n == IF agentConfig.historyLastN < 0 THEN 0 ELSE agentConfig.historyLastN
    IN /\ history = LastOutcomes(n)
       /\ Len(history) <= n
       /\ n = 0 => history = <<>>
       /\ HistorySlice = history

\* three steps have finished with historyLastN = 2: the first outcome is gone
C33_Witness ==
    /\ agentConfig.historyLastN = 2
    /\ Len(agentLog) = 3
    /\ Len(history) = 2
    /\ history[1].index = 2 /\ history[2].index = 3
    /\ ~history[1].ok /\ history[2].ok

\* C34: run() returns true if and only if every step it was given was
\* executed and had an ok outcome, whatever stopOnFailure is.
C34_TrueIffAllStepsOk ==
    agentPc = "done" /\ runResult # "thrown" =>
        (runResult = "true" <=>
            /\ Len(agentLog) = Len(runOpts.steps)
            /\ \A k \in 1..Len(agentLog) : agentLog[k].ok)

\* with stopOnFailure the result of run() does say whether all steps were ok
C34_TrueIffAllStepsOkWhenStopping ==
    runOpts.stopOnFailure /\ agentPc = "done" /\ runResult # "thrown" =>
        (runResult = "true" <=>
            /\ Len(agentLog) = Len(runOpts.steps)
            /\ \A k \in 1..Len(agentLog) : agentLog[k].ok)

(***************************************************************************)
(* EventuallyWrapper.evaluate: the context and the first evaluation        *)
(***************************************************************************)
\* C35: across retries only the snapshot and the url of the context change:
\* the stepId and the downloads of the initial context are in the context
\* of every predicate evaluation.
C35_StepIdAndDownloadsKept ==
    /\ ctx.stepId = InitialContext.stepId
    /\ ctx.downloads = InitialContext.downloads

\* the stepId is carried over to every rebuilt context
C35_StepIdKept == ctx.stepId = InitialContext.stepId

\* a predicate has been evaluated on a context rebuilt after a refresh
RebuiltContextReached ==
    /\ refreshes > 0
    /\ ctx.snapshot # InitialContext.snapshot
    /\ \E k \in 1..Len(log) : log[k].ev = "predicate" /\ log[k].snap = ctx.snapshot

\* C36: whatever the configuration, evaluate() has evaluated the predicate
\* at least once when it returns.
C36_EvaluatesBeforeReturning ==
    pc = "done" =>
        \E k \in 1..Len(log) : log[k].ev \in {"predicate", "predicate_threw"}

\* with a positive timeout and a positive maxRetries the predicate is
\* evaluated before evaluate() returns
C36_EvaluatesWhenBudgetPositive ==
    (pc = "done" /\ config.timeout > 0 /\ config.maxRetries > 0) =>
        \E k \in 1..Len(log) : log[k].ev \in {"predicate", "predicate_threw"}

(***************************************************************************)
(* Handles of debugger.check() and the open step                           *)
(***************************************************************************)
\* C37: an assertion evaluated through a handle of debugger.check() is
\* evaluated while a debugger step is open.
C37_EvaluatedInOpenStep ==
    lastCall.op \in {"once", "eventually"} => lastCall.stepOpenAtCall

\* an auto-closing handle has just closed its step and is still usable, and
\* so is a second handle created while that step was open
HandlesOutliveStepReached ==
    /\ lastCall.op = "once" /\ lastCall.end = "endStep"
    /\ ~stepOpen /\ runtime.openSteps = {}
    /\ handles["h1"].state = "ready" /\ handles["h1"].autoClose
    /\ handles["h2"].state = "ready" /\ ~handles["h2"].autoClose

(***************************************************************************)
(* CachedSnapshot.get and the options of the call                          *)
(***************************************************************************)
\* C38: the snapshot that get(options) returns was captured with the options
\* of that call (the default options when the call passes none).
C38_ReturnedWithAskedOptions ==
    lastGet.kind \in {"cached", "fresh"} => lastGet.value.opts = lastGet.asked

\* a snapshot captured for the call was captured with the options of the call
C38_FreshCapturedWithAskedOptions ==
    lastGet.kind = "fresh" => lastGet.value.opts = lastGet.asked

\* a fresh snapshot captured with other options has been returned
OtherOptionsReturnedReached ==
    /\ lastGet.kind = "cached"
    /\ lastGet.asked = "optA"
    /\ lastGet.value.opts = DefaultOptions
    /\ now - cachedAt <= maxAgeMs

(***************************************************************************)
(* The DG flag and ord of a formatted line                                 *)
(***************************************************************************)
\* C39: in every line the DG flag is 1 exactly when ord is a number.
C39_DgIffOrd ==
    WasFormatted =>
        \A i \in 1..Len(formatted) : formatted[i].dg <=> formatted[i].ord # <<"-">>

\* some interactive element is flagged as a member while another one has no
\* flag and the key of the dominant group
MixedMembership ==
    /\ snap.dominant_group_key # "null"
    /\ \E i, j \in 1..Len(snap.elements) :
        /\ snap.elements[i].in_dominant_group = "true"
        /\ snap.elements[j].in_dominant_group = "undefined"
        /\ snap.elements[j].group_key = snap.dominant_group_key

\* DG and ord agree on every snapshot that does not mix the two ways of
\* reporting membership
C39_DgIffOrdUnlessMixed ==
    (WasFormatted /\ ~MixedMembership) =>
        \A i \in 1..Len(formatted) : formatted[i].dg <=> formatted[i].ord # <<"-">>

\* a line with DG 1 and ord '-' has been produced
DgWithoutOrdReached ==
    /\ WasFormatted
    /\ \E i \in 1..Len(formatted) : formatted[i].dg /\ formatted[i].ord = <<"-">>

(***************************************************************************)
(* Queries restricted to the dominant group                                *)
(***************************************************************************)
RestrictedToDominantGroup ==
    elementQuery.inDominantGroup = "true" \/ elementQuery.fromDominantList

\* C40: a query restricted to the dominant group matches no element of a
\* snapshot that has no dominant_group_key.
C40_NoDominantKeyNoMatch ==
    (/\ foundIds # NotQueried
     /\ RestrictedToDominantGroup
     /\ querySnapshot.dominant_group_key \in {"undefined", "null"}) => foundIds = <<>>

\* on a snapshot that has a dominant_group_key such a query finds exactly
\* elements with that key
C40_MatchesHaveDominantKey ==
    (/\ foundIds # NotQueried
     /\ RestrictedToDominantGroup
     /\ querySnapshot.dominant_group_key \notin {"undefined", "null"}) =>
        \A i \in 1..Len(foundIds) :
            querySnapshot.elements[foundIds[i]].group_key = querySnapshot.dominant_group_key

\* inDominantList().nth(0) found an element of a snapshot without a key
KeylessMatchReached ==
    /\ foundIds # NotQueried /\ foundIds # <<>>
    /\ elementQuery.fromDominantList
    /\ querySnapshot.dominant_group_key = "undefined"

====
